---- MODULE Spec2Model ----
(***************************************************************************)
(* Model of the StageTimer schedule and timer engine (src/app.py with the  *)
(* persistence layer of src/database.py).                                  *)
(*                                                                         *)
(* Time is counted in whole minutes since 00:00 of day 0.  A date string   *)
(* "YYYY-MM-DD" is a day number, a time string "HH:MM" (zero padded, as    *)
(* an HTML time input sends it) is a minute of the day; both orders agree  *)
(* with the string order the code sorts by.  Sequences are 1-based, the    *)
(* code's list positions are 0-based: position i is element i + 1.         *)
(***************************************************************************)
EXTENDS Integers, Sequences, FiniteSets, TLC

\* ------------------------------------------------------------- constants
\* Python's None for end_time, last_date and the original_scheduled_* values.
None == -1

\* timedelta(days=1) in minutes.
MinutesPerDay == 1440

\* ------------------------------------------------------------- bounds
\* The wall clock when the program starts (day 0, 23:54) and the last clock
\* value the timer thread is followed to (day 1, 00:03).
NowInit == 1434
MaxNow == 1443
\* Most entries in the database when the program starts, most operator
\* requests followed in one run.
MaxLen == 2
MaxRequests == 2

\* ------------------------------------------------------------- inputs
\* What the operator types into the add/save/upload forms: date, band, start,
\* end.  A 23:55-23:57, B 23:58-23:59, C 23:56-00:01 (into day 1, across A
\* and B), D 00:00-00:02 on day 1 (across the end of C), E 00:02-00:03 on
\* day 1, typed with a blank in front of the name.
RowA == [date |-> 0, band |-> "A", start |-> 1435, end |-> 1437]
RowB == [date |-> 0, band |-> "B", start |-> 1438, end |-> 1439]
RowC == [date |-> 0, band |-> "C", start |-> 1436, end |-> 1]
RowD == [date |-> 1, band |-> "D", start |-> 0, end |-> 2]
RowE == [date |-> 1, band |-> " E", start |-> 2, end |-> 3]

Catalogue == {RowA, RowB, RowC, RowD}

\* The form rows of a save or an upload, in the order of the form: no row, one
\* row, rows out of order, rows that overlap, rows on two days, a name with a
\* blank.
Batches ==
  { <<>>, <<RowA>>, <<RowB, RowA>>, <<RowA, RowC>>, <<RowB, RowD>>,
    <<RowA, RowB, RowC>>, <<RowE>> }

\* The positions a delete request selects.
Selections == { {}, {0}, {1}, {0, 1}, {2} }

\* adjust_minutes values the operator sends.
Deltas == {-1, 0, 1, 2}

\* ------------------------------------------------------------- names
\* str.strip() on the names in use: " E" is the one that carries whitespace.
strip(name) == IF name = " E" THEN "E" ELSE name

\* ------------------------------------------------------------- dates and times
\* datetime.strptime(f"{date} {time}", "%Y-%m-%d %H:%M")
DateTime(date, time) == date * MinutesPerDay + time

\* datetime.date().isoformat()
DateOf(t) == t \div MinutesPerDay

\* datetime.strftime("%H:%M")
TimeOf(t) == t % MinutesPerDay

\* A calculation that moves the end to the next day only when it lies before
\* the start, not when it equals it; C18 tells it from the code's.
calculate_end_before_start(start_date, start_time, end_t) ==
  LET start_datetime == DateTime(start_date, start_time)
      same_day == DateTime(start_date, end_t)
      end_datetime == IF same_day < start_datetime
                        THEN same_day + MinutesPerDay
                        ELSE same_day
  IN [duration |-> end_datetime - start_datetime,
      end_date |-> DateOf(end_datetime)]

\* calculate_duration_and_end_date(start_date, start_time, end_time)
calculate_duration_and_end_date(start_date, start_time, end_t) ==
  LET start_datetime == DateTime(start_date, start_time)
      same_day == DateTime(start_date, end_t)
      end_datetime == IF same_day <= start_datetime
                        THEN same_day + MinutesPerDay
                        ELSE same_day
  IN [duration |-> end_datetime - start_datetime,
      end_date |-> DateOf(end_datetime)]

\* The schedule entry the add/save/upload handlers build from a form row.
MakeEntry(row) ==
  LET de == calculate_duration_and_end_date(row.date, row.start, row.end)
  IN [date |-> row.date, band |-> row.band, start |-> row.start,
      end |-> row.end, end_date |-> de.end_date, duration |-> de.duration]

EntryStart(e) == DateTime(e.date, e.start)
EntryEnd(e) == DateTime(e.end_date, e.end)

\* An overlap test on closed intervals, for which entries that touch
\* overlap; C16 tells it from the test of the code.
OverlapClosed(new_start, new_end, other_start, other_end) ==
  new_start <= other_end /\ new_end >= other_start

\* An overlap test that asks only whether the new entry starts inside the
\* other one; C17 tells it from the test of the code.
StartsInside(new_start, new_end, other_start, other_end) ==
  other_start <= new_start /\ new_start < other_end

\* The overlap test of check_time_conflict, load_schedule and upload_csv.
Overlap(new_start, new_end, other_start, other_end) ==
  new_start < other_end /\ new_end > other_start

\* ------------------------------------------------------------- lists
\* Python list indexing: 0-based, negative positions count from the end.
InRange(s, i) == i >= -Len(s) /\ i < Len(s)
PyAt(s, i) == IF i >= 0 THEN s[i + 1] ELSE s[Len(s) + i + 1]

\* list.pop(i) for 0 <= i < len
Pop(s, i) == SubSeq(s, 1, i) \o SubSeq(s, i + 2, Len(s))

\* key=lambda x: (x['date'], x['start'])
KeyLE(a, b) == a.date < b.date \/ (a.date = b.date /\ a.start <= b.start)

\* One step of a stable sort: e goes behind every element whose key is <= its own.
RECURSIVE InsertSorted(_, _)
InsertSorted(s, e) ==
  IF s = <<>> THEN <<e>>
  ELSE IF KeyLE(s[Len(s)], e) THEN Append(s, e)
  ELSE Append(InsertSorted(SubSeq(s, 1, Len(s) - 1), e), s[Len(s)])

\* list.sort(key=lambda x: (x['date'], x['start'])): stable
RECURSIVE SortByDateStart(_)
SortByDateStart(s) ==
  IF s = <<>> THEN <<>>
  ELSE InsertSorted(SortByDateStart(SubSeq(s, 1, Len(s) - 1)), s[Len(s)])

\* A list left in the order of its appends; C20 tells it from the sorted one.
AppendOrder(s) == s

\* sort_schedule / schedule.sort(...)
sort_schedule(s) == SortByDateStart(s)

\* ------------------------------------------------------------- state
VARIABLES
  schedule,                     \* app.py:184  list of entries, in list order
  current_band_index,           \* app.py:185
  timer_running,                \* app.py:186
  end_time,                     \* app.py:187  absolute minute or None
  original_scheduled_start,     \* app.py:190
  original_scheduled_end,       \* app.py:191
  original_scheduled_duration,  \* app.py:192
  schedule_conflicts,           \* app.py:193
  bands,                        \* table bands of the database, in rowid order
  history,                      \* table history of the database, in rowid order
  now,                          \* the wall clock, datetime.now()
  last_date,                    \* local variable of timer_thread
  loop_alive,                   \* timer_thread is inside its while loop
  response,                     \* what the last request handler returned
  emits,                        \* socketio events emitted by the last step
  requests                      \* operator requests received so far

vars == <<schedule, current_band_index, timer_running, end_time,
          original_scheduled_start, original_scheduled_end,
          original_scheduled_duration, schedule_conflicts, bands, history,
          now, last_date, loop_alive, response, emits, requests>>

playback == <<current_band_index, timer_running, end_time>>
originals == <<original_scheduled_start, original_scheduled_end,
               original_scheduled_duration>>

\* total_duration and countdowns are sent in seconds.
SecondsPerMinute == 60

\* ------------------------------------------------------------- events and responses
NoNext == <<>>

\* The next_band_info dictionary.
NextInfo(b, n) ==
  [band |-> b.band, start |-> b.start, date |-> b.date,
   countdown |-> (DateTime(DateOf(n), b.start) - n) * SecondsPerMinute]

\* socketio.emit('time_update', {'status': 'playing', ...})
PlayingUpdate(b, remaining, next) ==
  [event |-> "time_update", status |-> "playing", band |-> b.band,
   remaining |-> remaining, total_duration |-> b.duration * SecondsPerMinute,
   next_band |-> next]

\* socketio.emit('time_update', {'status': 'waiting', 'next_band': ...})
WaitingUpdate(b, n) ==
  [event |-> "time_update", status |-> "waiting", band |-> "",
   remaining |-> 0, total_duration |-> 0, next_band |-> <<NextInfo(b, n)>>]

\* socketio.emit('time_update', {'status': 'finished'})
FinishedUpdate ==
  [event |-> "time_update", status |-> "finished", band |-> "",
   remaining |-> 0, total_duration |-> 0, next_band |-> NoNext]

\* socketio.emit('schedule_updated', ...)
ScheduleUpdated ==
  [event |-> "schedule_updated", status |-> "", band |-> "",
   remaining |-> 0, total_duration |-> 0, next_band |-> NoNext]

\* What a request handler returns: the HTTP status, the kind of message, the
\* band a conflict message names, the minutes an adjust message states, the
\* conflicts an upload lists.
Reply(op, code, kind, band, minutes) ==
  [op |-> op, code |-> code, kind |-> kind, band |-> band, minutes |-> minutes,
   conflicts |-> <<>>]

\* A step of the timer thread answers no request.
NoReply == Reply("none", 0, "none", "", 0)

\* return redirect(url_for('admin'))
Redirect(op) == Reply(op, 302, "redirect", "", 0)

\* ------------------------------------------------------------- persistence
\* save_schedule_to_db: delete_all_bands, then add_band for every entry in
\* list order.
save_schedule_to_db(sched) == sched

\* db.get_all_bands: SELECT ... ORDER BY date, start_time (rows of equal key
\* in rowid order).
get_all_bands(rows) == SortByDateStart(rows)

\* db.add_to_history: INSERT ... hidden = 0
add_to_history(h, band_name, scheduled_date, scheduled_start, scheduled_end, actual_start, actual_end, duration) ==
  Append(h, [band_name |-> band_name, scheduled_date |-> scheduled_date,
             scheduled_start |-> scheduled_start,
             scheduled_end |-> scheduled_end,
             actual_start |-> actual_start, actual_end |-> actual_end,
             duration |-> duration, hidden |-> 0])

\* ------------------------------------------------------------- playback
\* Smallest element of a non-empty set of numbers.
Least(S) == CHOOSE x \in S : \A y \in S : x <= y

\* The "next band" loop of timer_thread, start_timer and adjust_time: the
\* first entry behind position idx whose date is the given one.
next_band_info(sched, idx, date, n) ==
  LET later == { i \in (idx + 1)..(Len(sched) - 1) : sched[i + 1].date = date }
  IN IF later = {} THEN NoNext ELSE <<NextInfo(sched[Least(later) + 1], n)>>

\* A search whose second loop looks at the entries of every date; C31 tells
\* it from the search of the code.
find_next_band_any_date(sched, n) ==
  LET current_date == DateOf(n)
      band_datetime(b) == DateTime(current_date, b.start)
      today == { i \in 1..Len(sched) : sched[i].date = current_date }
      playing == { i \in today :
                     /\ band_datetime(sched[i]) <= n
                     /\ n <= band_datetime(sched[i]) + sched[i].duration }
      future == { i \in 1..Len(sched) : band_datetime(sched[i]) > n }
      earliest == { i \in future : \A j \in future :
                      band_datetime(sched[i]) <= band_datetime(sched[j]) }
  IN IF playing # {}
       THEN <<[band |-> sched[Least(playing)],
               time |-> band_datetime(sched[Least(playing)])]>>
     ELSE IF future # {}
       THEN <<[band |-> sched[Least(earliest)],
               time |-> band_datetime(sched[Least(earliest)])]>>
     ELSE <<>>

\* find_next_band(): <<>> for (None, None), else <<[band, time]>>.
find_next_band(sched, n) ==
  LET current_date == DateOf(n)
      band_datetime(b) == DateTime(current_date, b.start)
      today == { i \in 1..Len(sched) : sched[i].date = current_date }
      playing == { i \in today :
                     /\ band_datetime(sched[i]) <= n
                     /\ n <= band_datetime(sched[i]) + sched[i].duration }
      future == { i \in today : band_datetime(sched[i]) > n }
      \* the first of the entries with the earliest start
      earliest == { i \in future : \A j \in future :
                      band_datetime(sched[i]) <= band_datetime(sched[j]) }
  IN IF playing # {}
       THEN <<[band |-> sched[Least(playing)],
               time |-> band_datetime(sched[Least(playing)])]>>
     ELSE IF future # {}
       THEN <<[band |-> sched[Least(earliest)],
               time |-> band_datetime(sched[Least(earliest)])]>>
     ELSE <<>>

\* for i, band in enumerate(schedule): if band == next_band: ... break
IndexOfBand(sched, b) == Least({ i \in 0..(Len(sched) - 1) : sched[i + 1] = b })

\* The playback state start_timer reads and writes.
PlaybackOf(running, et, oss, ose, osd) ==
  [timer_running |-> running, end_time |-> et,
   original_scheduled_start |-> oss, original_scheduled_end |-> ose,
   original_scheduled_duration |-> osd, emits |-> <<>>]

\* start_timer() with current_band_index = idx at wall clock n.
start_timer(sched, idx, n, cur) ==
  IF idx >= Len(sched) THEN cur
  ELSE
    LET band == PyAt(sched, idx)
        band_start == DateTime(DateOf(n), band.start)
    IN IF n < band_start
         THEN [cur EXCEPT !.timer_running = FALSE, !.end_time = None]
       ELSE
         LET actual_start == IF n >= band_start THEN n ELSE band_start
             et == actual_start + band.duration
         IN [timer_running |-> TRUE,
             end_time |-> et,
             original_scheduled_start |-> band.start,
             original_scheduled_end |-> band.end,
             original_scheduled_duration |-> band.duration,
             emits |-> <<PlayingUpdate(band, (et - n) * SecondsPerMinute,
                           next_band_info(sched, idx, DateOf(n), n))>>]

\* A countdown test that lets the band play through the tick at which the
\* countdown is exactly zero; C4 tells it from the test of the code.
StillPlayingAtZero(remaining) == remaining >= 0

\* "if remaining > 0:" (app.py:416): the countdown has not reached zero.
StillPlaying(remaining) == remaining > 0

\* The part of one pass of timer_thread's loop that runs while a timer is
\* running (app.py:414-492), at wall clock n with current_band_index = idx.
\* raised: the pass ended in the loop's except clause.
RunningPass(n, idx) ==
  LET remaining == (end_time - n) * SecondsPerMinute
      same == [raised |-> FALSE, schedule |-> schedule, bands |-> bands,
               history |-> history, timer_running |-> timer_running,
               end_time |-> end_time, current_band_index |-> idx,
               emits |-> <<>>]
  IN IF ~InRange(schedule, idx)
       THEN [same EXCEPT !.raised = TRUE]     \* IndexError at line 417 or 455
     ELSE
       LET current_band == PyAt(schedule, idx) IN
       IF StillPlaying(remaining)
         THEN [same EXCEPT !.emits =
                 <<PlayingUpdate(current_band, remaining,
                     next_band_info(schedule, idx, DateOf(n), n))>>]
       ELSE
         LET actual_end == n
             actual_start == end_time - current_band.duration
             actual_duration == actual_end - actual_start
             popped == Pop(schedule, IF idx >= 0 THEN idx ELSE Len(schedule) + idx)
         IN [raised |-> FALSE,
             history |-> add_to_history(history, current_band.band,
                           current_band.date,
                           IF original_scheduled_start # None
                             THEN original_scheduled_start
                             ELSE current_band.start,
                           IF original_scheduled_end # None
                             THEN original_scheduled_end
                             ELSE current_band.end,
                           actual_start, actual_end, actual_duration),
             schedule |-> popped,
             bands |-> save_schedule_to_db(popped),
             emits |-> <<ScheduleUpdated>>,
             timer_running |-> FALSE,
             end_time |-> None,
             current_band_index |-> -1]

\* The playback state cur together with current_band_index.
WithIndex(cur, idx) ==
  [timer_running |-> cur.timer_running, end_time |-> cur.end_time,
   original_scheduled_start |-> cur.original_scheduled_start,
   original_scheduled_end |-> cur.original_scheduled_end,
   original_scheduled_duration |-> cur.original_scheduled_duration,
   emits |-> cur.emits, current_band_index |-> idx]

\* An idle part that starts the next band of today as soon as no timer is
\* running, before its start time; C22 tells it from the idle part of the
\* code.
IdlePassStartsNext(n, sched, idx, cur) ==
  LET found == find_next_band(sched, n) IN
  IF found = <<>>
    THEN WithIndex([cur EXCEPT !.emits = <<FinishedUpdate>>], idx)
  ELSE LET i == IndexOfBand(sched, found[1].band)
           from == IF found[1].time > n THEN found[1].time ELSE n
       IN WithIndex(start_timer(sched, i, from, cur), i)

\* The part of the pass that runs while no timer is running (app.py:495-523).
IdlePass(n, sched, idx, cur) ==
  LET found == find_next_band(sched, n) IN
  IF found = <<>>
    THEN WithIndex([cur EXCEPT !.emits = <<FinishedUpdate>>], idx)
  ELSE IF found[1].time <= n
    THEN LET i == IndexOfBand(sched, found[1].band)
         IN WithIndex(start_timer(sched, i, n, cur), i)
  ELSE WithIndex([cur EXCEPT !.emits = <<WaitingUpdate(found[1].band, n)>>], idx)

\* The state a pass leaves behind: p1 from the running part, p2 from the
\* idle part.
PassResult(n, p1, p2) ==
  [schedule |-> p1.schedule, bands |-> p1.bands, history |-> p1.history,
   raised |-> p1.raised,
   current_band_index |-> p2.current_band_index,
   timer_running |-> p2.timer_running,
   end_time |-> p2.end_time,
   original_scheduled_start |-> p2.original_scheduled_start,
   original_scheduled_end |-> p2.original_scheduled_end,
   original_scheduled_duration |-> p2.original_scheduled_duration,
   emits |-> p1.emits \o p2.emits,
   last_date |-> DateOf(n)]

\* A pass whose idle part runs whether or not a timer is running, so that a
\* playing band is started again by every pass; C29 tells it from the pass
\* of the code.
AfterRunningRestarts(n, p1) ==
  LET cur == PlaybackOf(p1.timer_running, p1.end_time, original_scheduled_start,
                        original_scheduled_end, original_scheduled_duration)
  IN PassResult(n, p1,
       IF ~p1.raised
         THEN IdlePass(n, p1.schedule, p1.current_band_index, cur)
         ELSE WithIndex(cur, p1.current_band_index))

\* "if not timer_running:" after the running part has left p1.
AfterRunning(n, p1) ==
  LET cur == PlaybackOf(p1.timer_running, p1.end_time, original_scheduled_start,
                        original_scheduled_end, original_scheduled_duration)
  IN PassResult(n, p1,
       IF ~p1.raised /\ ~p1.timer_running
         THEN IdlePass(n, p1.schedule, p1.current_band_index, cur)
         ELSE WithIndex(cur, p1.current_band_index))

\* A date change that resets the index whether or not a band is playing; C11
\* tells it from the test of the code.
DateChanged(current_date) ==
  last_date # None /\ last_date # current_date

\* The date has changed and no timer is running (app.py:394-401).
ResetForNewDay(current_date) ==
  last_date # None /\ last_date # current_date /\ ~timer_running

\* A loop without an except clause, which an exception ends; C21 tells it
\* from the loop of the code.
LoopEndsOnError(raised) == ~raised

\* "except Exception as e: logger.error(...)" (app.py:525-526): the pass is
\* over, and the loop goes on to time.sleep(1) and to the next pass, whether
\* or not the pass has raised.  The hourly log line behind the except clause
\* (app.py:530-536) calls find_next_band, which reads the schedule and raises
\* on none of its entries.
LoopGoesOn(raised) == TRUE

\* One pass of the loop of timer_thread at wall clock n.
timer_thread(n) ==
  LET current_date == DateOf(n)
      idx0 == IF ResetForNewDay(current_date) THEN -1 ELSE current_band_index
  IN AfterRunning(n,
       IF timer_running /\ end_time # None
         THEN RunningPass(n, idx0)
         ELSE [raised |-> FALSE, schedule |-> schedule, bands |-> bands,
               history |-> history, timer_running |-> timer_running,
               end_time |-> end_time, current_band_index |-> idx0,
               emits |-> <<>>])

\* The wall clock moves on by adv minutes and the timer thread makes one pass
\* (adv = 0: one more pass within the same minute).
Tick(adv) ==
  /\ loop_alive
  /\ now + adv <= MaxNow
  /\ \E r \in {timer_thread(now + adv)} :
       /\ now' = now + adv
       /\ schedule' = r.schedule
       /\ bands' = r.bands
       /\ history' = r.history
       /\ current_band_index' = r.current_band_index
       /\ timer_running' = r.timer_running
       /\ end_time' = r.end_time
       /\ original_scheduled_start' = r.original_scheduled_start
       /\ original_scheduled_end' = r.original_scheduled_end
       /\ original_scheduled_duration' = r.original_scheduled_duration
       /\ last_date' = r.last_date
       /\ loop_alive' = LoopGoesOn(r.raised)
       /\ emits' = r.emits
  /\ response' = NoReply
  /\ UNCHANGED <<schedule_conflicts, requests>>

\* ------------------------------------------------------------- conflicts
\* A conflict check that puts the end of the new entry on its start date,
\* whatever end_date says; C2 tells it from the check of the code.
check_time_conflict_same_day(sched, start_date, start_time, end_t, duration, end_date) ==
  LET new_start == DateTime(start_date, start_time)
      new_end == DateTime(start_date, end_t)
      hits == { i \in 1..Len(sched) :
                  Overlap(new_start, new_end,
                          EntryStart(sched[i]), EntryEnd(sched[i])) }
  IN IF hits = {} THEN [has_conflict |-> FALSE, band |-> ""]
     ELSE [has_conflict |-> TRUE, band |-> sched[Least(hits)].band]

\* check_time_conflict: the first entry of the schedule, in list order, that
\* overlaps the new one.
check_time_conflict(sched, start_date, start_time, end_t, duration, end_date) ==
  LET new_start == DateTime(start_date, start_time)
      new_end == DateTime(end_date, end_t)
      hits == { i \in 1..Len(sched) :
                  Overlap(new_start, new_end,
                          EntryStart(sched[i]), EntryEnd(sched[i])) }
  IN IF hits = {} THEN [has_conflict |-> FALSE, band |-> ""]
     ELSE [has_conflict |-> TRUE, band |-> sched[Least(hits)].band]

\* An entry together with the row number its conflict messages carry.
Numbered(e, row) ==
  [date |-> e.date, band |-> e.band, start |-> e.start, end |-> e.end,
   end_date |-> e.end_date, duration |-> e.duration, row |-> row]

\* temp_entry: the entry without the row number, its name stripped
\* (band_dict["band_name"].strip(); an upload has stripped it before).
TempEntry(r) ==
  [date |-> r.date, band |-> strip(r.band), start |-> r.start, end |-> r.end,
   end_date |-> r.end_date, duration |-> r.duration]

\* conflict_msg of load_schedule and upload_csv.
ConflictMsg(new, other) ==
  [row |-> new.row, band1 |-> new.band, start1 |-> new.start, end1 |-> new.end,
   band2 |-> strip(other.band), start2 |-> other.start, end2 |-> other.end]

\* The inner loop: row k against the rows 1..j appended before it.
RECURSIVE ConflictsWith(_, _, _)
ConflictsWith(rows, k, j) ==
  IF j = 0 THEN <<>>
  ELSE ConflictsWith(rows, k, j - 1) \o
       (IF Overlap(EntryStart(rows[k]), EntryEnd(rows[k]),
                   EntryStart(rows[j]), EntryEnd(rows[j]))
          THEN <<ConflictMsg(rows[k], rows[j])>> ELSE <<>>)

\* An outer loop that stops at the first conflict it finds; C15 tells it from
\* the loop of the code.
RECURSIVE FirstConflict(_, _)
FirstConflict(rows, k) ==
  IF k = 0 THEN <<>>
  ELSE IF FirstConflict(rows, k - 1) # <<>> THEN FirstConflict(rows, k - 1)
  ELSE IF ConflictsWith(rows, k, k - 1) = <<>> THEN <<>>
  ELSE <<ConflictsWith(rows, k, k - 1)[1]>>

\* The outer loop: conflicts_found after the first k rows.
RECURSIVE ConflictsFound(_, _)
ConflictsFound(rows, k) ==
  IF k = 0 THEN <<>>
  ELSE ConflictsFound(rows, k - 1) \o ConflictsWith(rows, k, k - 1)

\* The decision of load_schedule and upload_csv on conflicts_found.
LoadDecision(sched, temp_schedule, conflicts_found) ==
  IF conflicts_found # <<>>
    THEN [schedule |-> sched, schedule_conflicts |-> conflicts_found]
    ELSE [schedule |-> temp_schedule, schedule_conflicts |-> <<>>]

\* The rows of the database with the row number load_schedule reports for
\* them: idx + 2.
NumberedRows(bands_from_db) ==
  [k \in 1..Len(bands_from_db) |-> Numbered(bands_from_db[k], (k - 1) + 2)]

\* temp_schedule: the entries of the rows.
TempSchedule(rows) == [k \in 1..Len(rows) |-> TempEntry(rows[k])]

\* The loop of load_schedule over the rows read from the database.
LoadRows(sched, rows) ==
  LoadDecision(sched, TempSchedule(rows), ConflictsFound(rows, Len(rows)))

\* load_schedule(): the new schedule and schedule_conflicts, from the rows of
\* the database (a row has the columns of an entry).
load_schedule(sched, db_rows) ==
  LoadRows(sched, NumberedRows(get_all_bands(db_rows)))

\* ------------------------------------------------------------- request handlers
\* The operator sends one more request.
Accepted == requests < MaxRequests /\ requests' = requests + 1

\* admin, action == 'start'
Start ==
  /\ Accepted
  /\ current_band_index' = 0
  /\ \E r \in {start_timer(schedule, 0, now,
                 PlaybackOf(timer_running, end_time, original_scheduled_start,
                            original_scheduled_end,
                            original_scheduled_duration))} :
       /\ timer_running' = r.timer_running
       /\ end_time' = r.end_time
       /\ original_scheduled_start' = r.original_scheduled_start
       /\ original_scheduled_end' = r.original_scheduled_end
       /\ original_scheduled_duration' = r.original_scheduled_duration
       /\ emits' = r.emits
  /\ response' = Redirect("start")
  /\ UNCHANGED <<schedule, schedule_conflicts, bands, history, now, last_date, loop_alive>>

\* admin, action == 'pause'
Pause ==
  /\ Accepted
  /\ timer_running' = FALSE
  /\ emits' = <<>>
  /\ response' = Redirect("pause")
  /\ UNCHANGED <<schedule, current_band_index, end_time, originals,
                 schedule_conflicts, bands, history, now, last_date, loop_alive>>

\* admin, action == 'reload'
Reload ==
  /\ Accepted
  /\ \E r \in {load_schedule(schedule, bands)} :
       /\ schedule' = r.schedule
       /\ schedule_conflicts' = r.schedule_conflicts
  /\ emits' = <<>>
  /\ response' = Redirect("reload")
  /\ UNCHANGED <<playback, originals, bands, history, now, last_date, loop_alive>>

\* updated_schedule of action == 'save': one entry per complete form row,
\* sorted by date and start.
UpdatedSchedule(batch) ==
  SortByDateStart([k \in 1..Len(batch) |-> MakeEntry(batch[k])])

\* The end_time after a save (app.py:885-891).
EndTimeAfterSave(sched) ==
  IF timer_running /\ current_band_index >= 0 /\ current_band_index < Len(sched)
    THEN EntryStart(sched[current_band_index + 1])
           + sched[current_band_index + 1].duration
    ELSE end_time

\* admin, action == 'save', with the form rows of batch
Save(batch) ==
  /\ Accepted
  /\ schedule' = UpdatedSchedule(batch)
  /\ bands' = save_schedule_to_db(schedule')
  /\ end_time' = EndTimeAfterSave(schedule')
  /\ emits' = <<>>
  /\ response' = Redirect("save")
  /\ UNCHANGED <<current_band_index, timer_running, originals,
                 schedule_conflicts, history, now, last_date, loop_alive>>

\* admin, action == 'add_band', with one complete form row
AddBand(row) ==
  /\ Accepted
  /\ emits' = <<>>
  /\ \E e \in {MakeEntry(row)} :
     \E c \in {check_time_conflict(schedule, e.date, e.start, e.end,
                                   e.duration, e.end_date)} :
       IF c.has_conflict
         THEN /\ response' = Reply("add_band", 400, "conflict", c.band, 0)
              /\ UNCHANGED <<schedule, bands>>
         ELSE /\ schedule' = sort_schedule(Append(schedule, e))
              /\ bands' = save_schedule_to_db(schedule')
              /\ response' = Redirect("add_band")
  /\ UNCHANGED <<playback, originals, schedule_conflicts, history, now,
                 last_date, loop_alive>>

\* The pops of action == 'delete': the positions in descending order, each
\* removed when it is a position of the list.
RECURSIVE PopAll(_, _)
PopAll(s, indices) ==
  IF indices = {} THEN s
  ELSE LET idx == CHOOSE x \in indices : \A y \in indices : x >= y
           rest == indices \ {idx}
       IN PopAll(IF 0 <= idx /\ idx < Len(s) THEN Pop(s, idx) ELSE s, rest)

\* The currently playing band counts as deleted (app.py:942).
PlayingBandDeleted(sched) ==
  timer_running /\ current_band_index >= Len(sched)

\* admin, action == 'delete', with the selected positions
Delete(selected) ==
  /\ Accepted
  /\ schedule' = PopAll(schedule, selected)
  /\ bands' = save_schedule_to_db(schedule')
  /\ IF PlayingBandDeleted(schedule')
       THEN /\ timer_running' = FALSE
            /\ end_time' = None
            /\ current_band_index' = -1
       ELSE UNCHANGED playback
  /\ emits' = <<>>
  /\ response' = Redirect("delete")
  /\ UNCHANGED <<originals, schedule_conflicts, history, now, last_date, loop_alive>>

\* ------------------------------------------------------------- adjust
\* The next band on the same day (app.py:1025-1031): the scan behind the
\* current position stops at the first entry of that date or of a later one.
AdjustNextBand(sched, idx) ==
  LET current_date == sched[idx + 1].date
      stops == { i \in (idx + 1)..(Len(sched) - 1) :
                   sched[i + 1].date >= current_date }
  IN IF stops = {} THEN <<>>
     ELSE IF sched[Least(stops) + 1].date = current_date
       THEN <<sched[Least(stops) + 1]>>
     ELSE <<>>

\* A floor that lets a duration of zero minutes pass; C7 tells it from the
\* floor of the code.
BelowZero(new_duration) == new_duration < 0

\* The duration floor of a negative adjust (app.py:1017-1020).
BelowMinimum(new_duration) == new_duration < 1

\* An overlap test that refuses an extension ending exactly at the start of
\* the next band; C6 tells it from the test of the code.
ReachesNext(new_end, next_start) == new_end >= next_start

\* The overlap test of a positive adjust (app.py:1042).
OverlapsNext(new_end, next_start) == new_end > next_start

\* The checks of adjust_time on the band at position idx (app.py:1016-1048):
\* the kind of answer and the minutes its message states.
AdjustVerdict(sched, idx, adjust_minutes) ==
  LET current_band == sched[idx + 1]
      next == AdjustNextBand(sched, idx)
      current_start == EntryStart(current_band)
      new_end == current_start + current_band.duration + adjust_minutes
      max_possible == (EntryStart(next[1]) - current_start) - current_band.duration
  IN IF adjust_minutes < 0 /\ BelowMinimum(current_band.duration + adjust_minutes)
       THEN [kind |-> "min_duration", minutes |-> 0]
     ELSE IF adjust_minutes > 0 /\ next # <<>>
               /\ OverlapsNext(new_end, EntryStart(next[1]))
       THEN IF max_possible > 0
              THEN [kind |-> "max_extension", minutes |-> max_possible]
              ELSE [kind |-> "no_extension", minutes |-> 0]
     ELSE [kind |-> "ok", minutes |-> adjust_minutes]

\* An adjusted entry whose end_date is left as it was; C9 tells it from the
\* entry the code writes.
AdjustedEntrySameEndDate(band, adjust_minutes) ==
  LET duration == band.duration + adjust_minutes
  IN [band EXCEPT !.duration = duration,
                  !.end = TimeOf(EntryStart(band) + duration)]

\* An adjusted entry whose end and end_date are left as they were; C19 tells
\* it from the entry the code writes.
AdjustedEntryKeepsEnd(band, adjust_minutes) ==
  [band EXCEPT !.duration = band.duration + adjust_minutes]

\* The entry after an accepted adjust (app.py:1053-1060).
AdjustedEntry(band, adjust_minutes) ==
  LET duration == band.duration + adjust_minutes
      new_end_datetime == EntryStart(band) + duration
  IN [band EXCEPT !.duration = duration,
                  !.end = TimeOf(new_end_datetime),
                  !.end_date = DateOf(new_end_datetime)]

\* A request that changes nothing but its answer.
Rejected(reply) ==
  /\ response' = reply
  /\ emits' = <<>>
  /\ UNCHANGED <<schedule, playback, originals, schedule_conflicts, bands,
                 history, now, last_date, loop_alive>>

\* The accepted adjust (app.py:1050-1102) of the entry at current_band_index.
AdjustAccepted(adjust_minutes, adjusted) ==
  /\ end_time' = end_time + adjust_minutes
  /\ schedule' = [schedule EXCEPT ![current_band_index + 1] = adjusted]
  /\ bands' = save_schedule_to_db(schedule')
  /\ emits' = <<PlayingUpdate(adjusted, (end_time' - now) * SecondsPerMinute,
                  next_band_info(schedule', current_band_index,
                                 adjusted.date, now))>>
  /\ response' = Reply("adjust_time", 200, "adjusted", "", adjust_minutes)
  /\ UNCHANGED <<current_band_index, timer_running, originals,
                 schedule_conflicts, history, now, last_date, loop_alive>>

\* A guard that does not ask whether the timer runs; C8 tells it from the
\* guard of the code.
IndexSet(adjust_minutes) == current_band_index >= 0 /\ adjust_minutes # 0

\* The guard of adjust_time (app.py:1012).
TimerActive(adjust_minutes) ==
  timer_running /\ current_band_index >= 0 /\ adjust_minutes # 0

\* admin, action == 'adjust_time'
AdjustTime(adjust_minutes) ==
  /\ Accepted
  /\ IF TimerActive(adjust_minutes)
       THEN IF current_band_index >= Len(schedule) \/ end_time = None
              THEN \* IndexError at line 1013, TypeError at line 1051
                   Rejected(Reply("adjust_time", 500, "error", "", 0))
              ELSE \E v \in {AdjustVerdict(schedule, current_band_index,
                                           adjust_minutes)} :
                     IF v.kind # "ok"
                       THEN Rejected(Reply("adjust_time", 400, v.kind, "",
                                           v.minutes))
                       ELSE AdjustAccepted(adjust_minutes,
                              AdjustedEntry(schedule[current_band_index + 1],
                                            adjust_minutes))
       ELSE Rejected(Reply("adjust_time", 400, "no_timer", "", 0))

\* ------------------------------------------------------------- CSV upload
\* A row of the file as an entry, its name stripped (df['band'].str.strip()).
CsvEntry(row) ==
  MakeEntry([date |-> row.date, band |-> strip(row.band), start |-> row.start,
             end |-> row.end])

\* df.sort_values(['date', 'start']) keeps each row's label, its position in
\* the file; idx + 2 is the line of the file.
RowsByDateStart(batch) ==
  SortByDateStart([k \in 1..Len(batch) |->
                     Numbered(CsvEntry(batch[k]), (k - 1) + 2)])

\* upload_csv with the rows of a well-formed, non-empty file
UploadCsv(batch) ==
  /\ Accepted
  /\ batch # <<>>
  /\ emits' = <<>>
  /\ \E rows \in {RowsByDateStart(batch)} :
     \E conflicts_found \in {ConflictsFound(rows, Len(rows))} :
       IF conflicts_found # <<>>
         THEN /\ response' = [Reply("upload_csv", 400, "conflicts", "",
                                    Len(conflicts_found))
                                EXCEPT !.conflicts = conflicts_found]
              /\ UNCHANGED <<schedule, schedule_conflicts, bands>>
         ELSE \* db.import_bands_from_list(temp_schedule); load_schedule()
              /\ bands' = TempSchedule(rows)
              /\ \E loaded \in {load_schedule(schedule, bands')} :
                   /\ schedule' = loaded.schedule
                   /\ schedule_conflicts' = loaded.schedule_conflicts
              /\ response' = Reply("upload_csv", 200, "uploaded", "", Len(rows))
  /\ UNCHANGED <<playback, originals, history, now, last_date, loop_alive>>

\* ------------------------------------------------------------- specification
\* What the database can hold when the program starts: up to MaxLen entries
\* made from form rows, free of conflicts, as load_schedule accepts them.
InitialBands ==
  { UpdatedSchedule(batch) : batch \in
      { b \in UNION { [1..k -> Catalogue] : k \in 0..MaxLen } :
          load_schedule(<<>>, UpdatedSchedule(b)).schedule_conflicts = <<>> } }

\* The state when the timer thread starts: load_schedule() has run on the
\* database, nothing is playing.
Init ==
  /\ bands \in InitialBands
  /\ schedule = load_schedule(<<>>, bands).schedule
  /\ current_band_index = -1
  /\ timer_running = FALSE
  /\ end_time = None
  /\ original_scheduled_start = None
  /\ original_scheduled_end = None
  /\ original_scheduled_duration = None
  /\ schedule_conflicts = <<>>
  /\ history = <<>>
  /\ now = NowInit
  /\ last_date = None
  /\ loop_alive = TRUE
  /\ response = NoReply
  /\ emits = <<>>
  /\ requests = 0

Next ==
  \/ \E adv \in {0, 1} : Tick(adv)
  \/ Start
  \/ Pause
  \/ Reload
  \/ \E batch \in Batches : Save(batch)
  \/ \E row \in Catalogue : AddBand(row)
  \/ \E selected \in Selections : Delete(selected)
  \/ \E adjust_minutes \in Deltas : AdjustTime(adjust_minutes)
  \/ \E batch \in Batches : UploadCsv(batch)

Spec == Init /\ [][Next]_vars

\* ------------------------------------------------------------- persistence failures
\* save_schedule_to_db when its db call number failing raises: call 1 is
\* delete_all_bands, call m + 1 is the add_band of the m-th entry.  Every db
\* call commits on its own, so the database keeps what the calls before the
\* failing one have written.
save_schedule_failing(db, sched, failing) ==
  IF failing = 1 THEN db ELSE SubSeq(sched, 1, failing - 2)

\* The db calls of save_schedule_to_db for a schedule.
FailingCalls(sched) == 1..(Len(sched) + 1)

\* The answer to a request whose handler ended in an exception.
ServerError(op) == Reply(op, 500, "error", "", 0)

\* admin, action == 'add_band': save_schedule_to_db raises behind the append
\* and the sort.
AddBandFault(row) ==
  /\ Accepted
  /\ emits' = <<>>
  /\ \E e \in {MakeEntry(row)} :
       /\ ~check_time_conflict(schedule, e.date, e.start, e.end, e.duration,
                               e.end_date).has_conflict
       /\ schedule' = sort_schedule(Append(schedule, e))
       /\ \E failing \in FailingCalls(schedule') :
            bands' = save_schedule_failing(bands, schedule', failing)
  /\ response' = ServerError("add_band")
  /\ UNCHANGED <<playback, originals, schedule_conflicts, history, now,
                 last_date, loop_alive>>

\* admin, action == 'save': save_schedule_to_db raises behind the replacement
\* of the schedule, before the end_time update.
SaveFault(batch) ==
  /\ Accepted
  /\ schedule' = UpdatedSchedule(batch)
  /\ \E failing \in FailingCalls(schedule') :
       bands' = save_schedule_failing(bands, schedule', failing)
  /\ emits' = <<>>
  /\ response' = ServerError("save")
  /\ UNCHANGED <<playback, originals, schedule_conflicts, history, now,
                 last_date, loop_alive>>

\* admin, action == 'delete': save_schedule_to_db raises behind the pops,
\* before the test for the playing band.
DeleteFault(selected) ==
  /\ Accepted
  /\ schedule' = PopAll(schedule, selected)
  /\ \E failing \in FailingCalls(schedule') :
       bands' = save_schedule_failing(bands, schedule', failing)
  /\ emits' = <<>>
  /\ response' = ServerError("delete")
  /\ UNCHANGED <<playback, originals, schedule_conflicts, history, now,
                 last_date, loop_alive>>

\* admin, action == 'adjust_time': save_schedule_to_db raises behind the
\* update of end_time and of the entry, before the emit.
AdjustTimeFault(adjust_minutes) ==
  /\ Accepted
  /\ TimerActive(adjust_minutes)
  /\ current_band_index < Len(schedule)
  /\ end_time # None
  /\ AdjustVerdict(schedule, current_band_index, adjust_minutes).kind = "ok"
  /\ end_time' = end_time + adjust_minutes
  /\ schedule' = [schedule EXCEPT ![current_band_index + 1] =
                    AdjustedEntry(schedule[current_band_index + 1],
                                  adjust_minutes)]
  /\ \E failing \in FailingCalls(schedule') :
       bands' = save_schedule_failing(bands, schedule', failing)
  /\ emits' = <<>>
  /\ response' = ServerError("adjust_time")
  /\ UNCHANGED <<current_band_index, timer_running, originals,
                 schedule_conflicts, history, now, last_date, loop_alive>>

\* A finish branch that pops the band before it writes the history, so that
\* the band is gone although db.add_to_history has raised; C27 tells it from
\* the finish branch of the code.
FinishFailingPopFirst(n, idx, history_fails, failing) ==
  LET current_band == PyAt(schedule, idx)
      actual_start == end_time - current_band.duration
      popped == Pop(schedule, IF idx >= 0 THEN idx ELSE Len(schedule) + idx)
  IN [raised |-> FALSE,
      history |-> IF history_fails THEN history
                  ELSE add_to_history(history, current_band.band,
                         current_band.date, current_band.start,
                         current_band.end, actual_start, n, n - actual_start),
      schedule |-> popped,
      bands |-> IF history_fails THEN bands
                ELSE save_schedule_failing(bands, popped, failing),
      emits |-> <<>>,
      timer_running |-> FALSE,
      end_time |-> None,
      current_band_index |-> -1]

\* A finish branch whose reset stands inside the try block, so that it is
\* skipped when db.add_to_history raises; C39 tells it from the finish
\* branch of the code.
FinishFailingNoReset(n, idx, history_fails, failing) ==
  LET current_band == PyAt(schedule, idx)
      actual_start == end_time - current_band.duration
      popped == Pop(schedule, IF idx >= 0 THEN idx ELSE Len(schedule) + idx)
  IN [raised |-> FALSE,
      history |-> IF history_fails THEN history
                  ELSE add_to_history(history, current_band.band,
                         current_band.date, current_band.start,
                         current_band.end, actual_start, n, n - actual_start),
      schedule |-> IF history_fails THEN schedule ELSE popped,
      bands |-> IF history_fails THEN bands
                ELSE save_schedule_failing(bands, popped, failing),
      emits |-> <<>>,
      timer_running |-> history_fails,
      end_time |-> IF history_fails THEN end_time ELSE None,
      current_band_index |-> IF history_fails THEN idx ELSE -1]

\* The finish branch of timer_thread (app.py:453-492) when a db call of its
\* try block raises: db.add_to_history (history_fails), or else call number
\* failing of save_schedule_to_db.  The except clause logs, and the reset
\* behind it runs all the same.
FinishFailing(n, idx, history_fails, failing) ==
  LET current_band == PyAt(schedule, idx)
      actual_start == end_time - current_band.duration
      popped == Pop(schedule, IF idx >= 0 THEN idx ELSE Len(schedule) + idx)
  IN [raised |-> FALSE,
      history |-> IF history_fails THEN history
                  ELSE add_to_history(history, current_band.band,
                         current_band.date,
                         IF original_scheduled_start # None
                           THEN original_scheduled_start
                           ELSE current_band.start,
                         IF original_scheduled_end # None
                           THEN original_scheduled_end
                           ELSE current_band.end,
                         actual_start, n, n - actual_start),
      schedule |-> IF history_fails THEN schedule ELSE popped,
      bands |-> IF history_fails THEN bands
                ELSE save_schedule_failing(bands, popped, failing),
      emits |-> <<>>,
      timer_running |-> FALSE,
      end_time |-> None,
      current_band_index |-> -1]

\* A pass of the timer thread that finishes the playing band while the
\* database fails.
TickFault(adv) ==
  /\ loop_alive
  /\ now + adv <= MaxNow
  /\ timer_running
  /\ end_time # None
  /\ InRange(schedule, current_band_index)
  /\ ~StillPlaying((end_time - (now + adv)) * SecondsPerMinute)
  /\ \E history_fails \in BOOLEAN :
     \E failing \in IF history_fails THEN {1}
                     ELSE FailingCalls(Pop(schedule, 0)) :
     \E r \in {AfterRunning(now + adv,
                  FinishFailing(now + adv, current_band_index, history_fails,
                                failing))} :
       /\ now' = now + adv
       /\ schedule' = r.schedule
       /\ bands' = r.bands
       /\ history' = r.history
       /\ current_band_index' = r.current_band_index
       /\ timer_running' = r.timer_running
       /\ end_time' = r.end_time
       /\ original_scheduled_start' = r.original_scheduled_start
       /\ original_scheduled_end' = r.original_scheduled_end
       /\ original_scheduled_duration' = r.original_scheduled_duration
       /\ last_date' = r.last_date
       /\ loop_alive' = LoopGoesOn(r.raised)
       /\ emits' = r.emits
  /\ response' = NoReply
  /\ UNCHANGED <<schedule_conflicts, requests>>

\* A step in which a persistence call fails.
FaultStep ==
  \/ \E row \in Catalogue : AddBandFault(row)
  \/ \E batch \in Batches : SaveFault(batch)
  \/ \E selected \in Selections : DeleteFault(selected)
  \/ \E adjust_minutes \in Deltas : AdjustTimeFault(adjust_minutes)
  \/ \E adv \in {0, 1} : TickFault(adv)

\* The program with a database that can fail.
NextFault ==
  \/ Next
  \/ \E row \in Catalogue : AddBandFault(row)
  \/ \E batch \in Batches : SaveFault(batch)
  \/ \E selected \in Selections : DeleteFault(selected)
  \/ \E adjust_minutes \in Deltas : AdjustTimeFault(adjust_minutes)
  \/ \E adv \in {0, 1} : TickFault(adv)

SpecFault == Init /\ [][NextFault]_vars

\* The timer thread alone, with a database that can fail when a band
\* finishes.
NextTimerFault ==
  \/ \E adv \in {0, 1} : Tick(adv)
  \/ \E adv \in {0, 1} : TickFault(adv)

SpecTimerFault == Init /\ [][NextTimerFault]_vars

\* ------------------------------------------------------------- interleaving
\* The timer thread and the request handlers run in different threads and
\* take no lock.  The finish branch reads current_band (app.py:455) and
\* appends it to the history (app.py:468), and pops current_band_index
\* (app.py:479) afterwards; a request handled in between sees and changes the
\* schedule in between.

\* What add_band leaves of a schedule: the schedule itself on a conflict.
ScheduleAfterAdd(sched, row) ==
  LET e == MakeEntry(row)
  IN IF check_time_conflict(sched, e.date, e.start, e.end, e.duration,
                            e.end_date).has_conflict
       THEN sched
       ELSE sort_schedule(Append(sched, e))

\* The finish branch at wall clock n around a request that has turned the
\* schedule into sched_mid: the record is that of the band read before the
\* request, the pop is made at current_band_index in sched_mid.
FinishAround(n, idx, sched_mid) ==
  LET current_band == PyAt(schedule, idx)
      actual_start == end_time - current_band.duration
      popped == IF idx < Len(sched_mid) THEN Pop(sched_mid, idx) ELSE sched_mid
  IN [raised |-> FALSE,
      history |-> add_to_history(history, current_band.band,
                    current_band.date,
                    IF original_scheduled_start # None
                      THEN original_scheduled_start
                      ELSE current_band.start,
                    IF original_scheduled_end # None
                      THEN original_scheduled_end
                      ELSE current_band.end,
                    actual_start, n, n - actual_start),
      schedule |-> popped,
      bands |-> IF idx < Len(sched_mid) THEN save_schedule_to_db(popped)
                ELSE save_schedule_to_db(sched_mid),
      \* pop raises IndexError behind the end of the list: no save, no emit
      emits |-> IF idx < Len(sched_mid) THEN <<ScheduleUpdated>> ELSE <<>>,
      timer_running |-> FALSE,
      end_time |-> None,
      current_band_index |-> -1]

\* A pass of the timer thread that finishes the playing band, with an
\* add_band request handled between its history append and its pop.
FinishAroundAddBand(adv, row) ==
  /\ Accepted
  /\ loop_alive
  /\ now + adv <= MaxNow
  /\ timer_running
  /\ end_time # None
  /\ current_band_index >= 0
  /\ current_band_index < Len(schedule)
  /\ ~StillPlaying((end_time - (now + adv)) * SecondsPerMinute)
  /\ \E r \in {AfterRunning(now + adv,
                  FinishAround(now + adv, current_band_index,
                               ScheduleAfterAdd(schedule, row)))} :
       /\ now' = now + adv
       /\ schedule' = r.schedule
       /\ bands' = r.bands
       /\ history' = r.history
       /\ current_band_index' = r.current_band_index
       /\ timer_running' = r.timer_running
       /\ end_time' = r.end_time
       /\ original_scheduled_start' = r.original_scheduled_start
       /\ original_scheduled_end' = r.original_scheduled_end
       /\ original_scheduled_duration' = r.original_scheduled_duration
       /\ last_date' = r.last_date
       /\ loop_alive' = LoopGoesOn(r.raised)
       /\ emits' = r.emits
  /\ response' = IF ScheduleAfterAdd(schedule, row) = schedule
                   THEN Reply("add_band", 400, "conflict", "", 0)
                   ELSE Redirect("add_band")
  /\ UNCHANGED schedule_conflicts

\* The program with its threads interleaved inside the finish branch.
NextInterleaved ==
  \/ Next
  \/ \E adv \in {0, 1} : \E row \in Catalogue : FinishAroundAddBand(adv, row)

SpecInterleaved == Init /\ [][NextInterleaved]_vars

\* ------------------------------------------------------------- the functions alone
\* calculate_duration_and_end_date and check_time_conflict on two form rows:
\* the rows are in bands, Calculate makes their entries, Check tests the
\* second entry as the new one against a schedule that holds the first.

\* Times of the day the rows are drawn from: 00:00, 00:30, 01:00, 23:30,
\* 23:59.
TimesOfDay == {0, 30, 60, 23 * 60 + 30, 23 * 60 + 59}

FormRows(name) ==
  [date : {0, 1}, band : {name}, start : TimesOfDay, end : TimesOfDay]

InitRows ==
  /\ bands \in { <<x, n>> : x \in FormRows("X"), n \in FormRows("N") }
  /\ schedule = <<>>
  /\ current_band_index = -1
  /\ timer_running = FALSE
  /\ end_time = None
  /\ original_scheduled_start = None
  /\ original_scheduled_end = None
  /\ original_scheduled_duration = None
  /\ schedule_conflicts = <<>>
  /\ history = <<>>
  /\ now = NowInit
  /\ last_date = None
  /\ loop_alive = TRUE
  /\ response = NoReply
  /\ emits = <<>>
  /\ requests = 0

\* duration, end_date = calculate_duration_and_end_date(date, start, end) for
\* both rows
Calculate ==
  /\ schedule = <<>>
  /\ schedule' = [k \in 1..Len(bands) |-> MakeEntry(bands[k])]
  /\ UNCHANGED <<playback, originals, schedule_conflicts, bands, history, now,
                 last_date, loop_alive, response, emits, requests>>

\* has_conflict, error_message = check_time_conflict(...) for the second
\* entry against the first
Check ==
  /\ schedule # <<>>
  /\ response.op = "none"
  /\ \E c \in {check_time_conflict(<<schedule[1]>>, schedule[2].date,
                   schedule[2].start, schedule[2].end, schedule[2].duration,
                   schedule[2].end_date)} :
       response' = IF c.has_conflict
                     THEN Reply("check_time_conflict", 400, "conflict",
                                c.band, 0)
                     ELSE Reply("check_time_conflict", 200, "free", "", 0)
  /\ UNCHANGED <<schedule, playback, originals, schedule_conflicts, bands,
                 history, now, last_date, loop_alive, emits, requests>>

NextRows == Calculate \/ Check

SpecRows == InitRows /\ [][NextRows]_vars

\* ------------------------------------------------------------- history
\* The id of a history record is its rowid: its position in the table.

\* A hard delete, db.delete_history_entry_permanently, which no route of
\* app.py calls; C23 tells it from hide_history_entry.
delete_history_entry_permanently(h, history_id) ==
  IF history_id \in 1..Len(h)
    THEN SubSeq(h, 1, history_id - 1) \o SubSeq(h, history_id + 1, Len(h))
    ELSE h

\* db.hide_history_entry: UPDATE history SET hidden = 1 WHERE id = ?
hide_history_entry(h, history_id) ==
  [k \in 1..Len(h) |->
     IF k = history_id THEN [h[k] EXCEPT !.hidden = 1] ELSE h[k]]

\* db.hide_all_history: UPDATE history SET hidden = 1 WHERE hidden = 0
hide_all_history(h) ==
  [k \in 1..Len(h) |->
     IF h[k].hidden = 0 THEN [h[k] EXCEPT !.hidden = 1] ELSE h[k]]

\* The row of a history record as the queries return it.
HistoryRow(h, k) ==
  [id |-> k, band_name |-> h[k].band_name,
   scheduled_date |-> h[k].scheduled_date,
   scheduled_start |-> h[k].scheduled_start,
   scheduled_end |-> h[k].scheduled_end,
   actual_start |-> h[k].actual_start, actual_end |-> h[k].actual_end,
   duration |-> h[k].duration]

\* db.get_visible_history: SELECT ... WHERE hidden = 0 ORDER BY created_at
\* DESC, the newest record first.
RECURSIVE get_visible_history(_, _)
get_visible_history(h, k) ==
  IF k = 0 THEN <<>>
  ELSE IF h[k].hidden = 0
    THEN <<HistoryRow(h, k)>> \o get_visible_history(h, k - 1)
  ELSE get_visible_history(h, k - 1)

\* The history_id values of the form: None for a form without the field.
HistoryIds == {None, 1, 2, 3}

\* POST /api/history/hide
HideHistoryEntry(history_id) ==
  /\ IF history_id = None
       THEN /\ response' = Reply("hide_history_entry", 400, "id_missing", "", 0)
            /\ history' = history
       ELSE /\ response' = Reply("hide_history_entry", 200, "hidden", "", 0)
            /\ history' = hide_history_entry(history, history_id)
  /\ emits' = <<>>
  /\ UNCHANGED <<schedule, playback, originals, schedule_conflicts, bands,
                 now, last_date, loop_alive, requests>>

\* POST /api/history/hide_all
HideAllHistory ==
  /\ response' = Reply("hide_all_history", 200, "hidden", "", 0)
  /\ history' = hide_all_history(history)
  /\ emits' = <<>>
  /\ UNCHANGED <<schedule, playback, originals, schedule_conflicts, bands,
                 now, last_date, loop_alive, requests>>

\* The operations that touch the history: the finish of the timer thread and
\* the two hide routes.
NextHistory ==
  \/ \E adv \in {0, 1} : Tick(adv)
  \/ \E history_id \in HistoryIds : HideHistoryEntry(history_id)
  \/ HideAllHistory

SpecHistory == Init /\ [][NextHistory]_vars

\* ------------------------------------------------------------- schedule API
\* datetime.hour
HourOf(t) == TimeOf(t) \div 60

\* The calendar date at every time of the day; C24 tells it from the event
\* date of the code.
calendar_date(n) == DateOf(n)

\* event_date of api_schedule (app.py:658-663): the day switches at 02:00.
event_date(n) == IF HourOf(n) < 2 THEN DateOf(n) - 1 ELSE DateOf(n)

\* sorted(set(band['date'] for band in schedule))
RECURSIVE SortedDates(_)
SortedDates(dates) ==
  IF dates = {} THEN <<>>
  ELSE <<Least(dates)>> \o SortedDates(dates \ {Least(dates)})

all_dates(sched) == SortedDates({ sched[k].date : k \in 1..Len(sched) })

\* The wall clock when /api/schedule is asked: 00:00, 00:59, 01:00, 01:59,
\* 02:00, 02:59, 12:00, 23:59 of days 1 and 2.
ApiTimes ==
  { DateTime(d, t) : d \in {1, 2},
                     t \in {0, 59, 60, 119, 120, 179, 12 * 60, 23 * 60 + 59} }

InitApi ==
  /\ bands \in InitialBands
  /\ schedule = load_schedule(<<>>, bands).schedule
  /\ current_band_index = -1
  /\ timer_running = FALSE
  /\ end_time = None
  /\ original_scheduled_start = None
  /\ original_scheduled_end = None
  /\ original_scheduled_duration = None
  /\ schedule_conflicts = <<>>
  /\ history = <<>>
  /\ now \in ApiTimes
  /\ last_date = None
  /\ loop_alive = TRUE
  /\ response = NoReply
  /\ emits = <<>>
  /\ requests = 0

\* GET /api/schedule
ApiSchedule ==
  /\ response' = [op |-> "api_schedule", code |-> 200, kind |-> "json",
                   band |-> "", minutes |-> 0, conflicts |-> <<>>,
                   schedule |-> schedule, event_date |-> event_date(now),
                   all_dates |-> all_dates(schedule)]
  /\ UNCHANGED <<schedule, playback, originals, schedule_conflicts, bands,
                 history, now, last_date, loop_alive, emits, requests>>

NextApi == ApiSchedule

SpecApi == InitApi /\ [][NextApi]_vars

\* ------------------------------------------------------------- status
\* The /status route at wall clock n: the status it answers and the band it
\* names as playing.
status(sched, n) ==
  LET current_date == DateOf(n)
      band_datetime(b) == DateTime(current_date, b.start)
      today == { i \in 1..Len(sched) : sched[i].date = current_date }
      playing == { i \in today :
                     /\ band_datetime(sched[i]) <= n
                     /\ n <= band_datetime(sched[i]) + sched[i].duration }
      future == { i \in today : band_datetime(sched[i]) > n }
  IN IF sched = <<>> THEN [status |-> "finished", band |-> ""]
     ELSE IF playing # {}
       THEN [status |-> "playing", band |-> sched[Least(playing)].band]
     ELSE IF future # {} THEN [status |-> "waiting", band |-> ""]
     ELSE [status |-> "finished", band |-> ""]

\* ------------------------------------------------------------- an evening
\* Two bands of day 0, A 18:00-19:00 and B 19:30-21:00, the timer thread from
\* 17:59 on, and no request.
EveningA == [date |-> 0, band |-> "A", start |-> 18 * 60, end |-> 19 * 60]
EveningB == [date |-> 0, band |-> "B", start |-> 19 * 60 + 30, end |-> 21 * 60]

InitEvening ==
  /\ bands = UpdatedSchedule(<<EveningA, EveningB>>)
  /\ schedule = load_schedule(<<>>, bands).schedule
  /\ current_band_index = -1
  /\ timer_running = FALSE
  /\ end_time = None
  /\ original_scheduled_start = None
  /\ original_scheduled_end = None
  /\ original_scheduled_duration = None
  /\ schedule_conflicts = <<>>
  /\ history = <<>>
  /\ now = 17 * 60 + 59
  /\ last_date = None
  /\ loop_alive = TRUE
  /\ response = NoReply
  /\ emits = <<>>
  /\ requests = 0

NextEvening == \E adv \in {0, 1} : Tick(adv)

SpecEvening == InitEvening /\ [][NextEvening]_vars

\* ------------------------------------------------------------- the timer alone
\* The timer thread with no request and no failing persistence call, started
\* while an entry may be in progress: RowX has begun before the first pass.
RowX == [date |-> 0, band |-> "X", start |-> 1430, end |-> 1436]

\* What the database can hold when the program starts late.
LateBands ==
  { UpdatedSchedule(batch) : batch \in
      { b \in UNION { [1..k -> Catalogue \cup {RowX}] : k \in 0..MaxLen } :
          load_schedule(<<>>, UpdatedSchedule(b)).schedule_conflicts = <<>> } }

InitLate ==
  /\ bands \in LateBands
  /\ schedule = load_schedule(<<>>, bands).schedule
  /\ current_band_index = -1
  /\ timer_running = FALSE
  /\ end_time = None
  /\ original_scheduled_start = None
  /\ original_scheduled_end = None
  /\ original_scheduled_duration = None
  /\ schedule_conflicts = <<>>
  /\ history = <<>>
  /\ now = NowInit
  /\ last_date = None
  /\ loop_alive = TRUE
  /\ response = NoReply
  /\ emits = <<>>
  /\ requests = 0

NextLate == \E adv \in {0, 1} : Tick(adv)

\* time.sleep(1) ends and the loop makes its next pass (app.py:388, 538):
\* the clock moves on and a pass is made at every minute.
SpecLate == InitLate /\ [][NextLate]_vars /\ WF_vars(Tick(1))

\* ------------------------------------------------------------- claims
\* The wall-clock interval [date+start, end_date+end) of an entry.
SlotStart(e) == e.date * MinutesPerDay + e.start
SlotEnd(e) == e.end_date * MinutesPerDay + e.end
SlotsOverlap(a, b) == SlotStart(a) < SlotEnd(b) /\ SlotStart(b) < SlotEnd(a)

\* The entry a form row describes: it ends on the next day when its end is
\* not after its start.
SlotOfRow(row) ==
  [date |-> row.date, start |-> row.start, end |-> row.end,
   end_date |-> IF row.end > row.start THEN row.date ELSE row.date + 1]

\* Some two rows of the batch overlap.
BatchOverlaps(batch) ==
  \E i, j \in 1..Len(batch) :
    i # j /\ SlotsOverlap(SlotOfRow(batch[i]), SlotOfRow(batch[j]))

\* An entry is playing: the timer runs and current_band_index is a position
\* of the schedule.
Playing ==
  /\ timer_running
  /\ end_time # None
  /\ current_band_index >= 0
  /\ current_band_index < Len(schedule)

ActiveEntry == schedule[current_band_index + 1]

\* C1: a save whose batch holds two overlapping rows leaves the schedule and
\* the persisted bands as they were and answers with the conflicts.
C1_SaveRejectsOverlappingBatch ==
  [][\A batch \in Batches :
       (Save(batch) /\ BatchOverlaps(batch))
         => /\ schedule' = schedule
            /\ bands' = bands
            /\ response'.kind = "conflicts"]_vars

\* C2: add_band of an entry that overlaps an entry of the schedule is answered
\* with an error naming an overlapping entry and changes neither the schedule
\* nor the persisted bands; an entry that overlaps none is inserted and
\* persisted.
C2_AddBandRejectsOverlap ==
  [][\A row \in Catalogue :
       (response'.op = "add_band" /\ AddBand(row)) =>
         LET clash == { i \in 1..Len(schedule) :
                          SlotsOverlap(SlotOfRow(row), schedule[i]) }
         IN IF clash # {}
              THEN /\ schedule' = schedule
                   /\ bands' = bands
                   /\ response'.code = 400
                   /\ response'.kind = "conflict"
                   /\ \E i \in clash : response'.band = schedule[i].band
              ELSE /\ Len(schedule') = Len(schedule) + 1
                   /\ \E k \in 1..Len(schedule') :
                        /\ schedule'[k].band = row.band
                        /\ schedule'[k].date = row.date
                        /\ schedule'[k].start = row.start
                        /\ schedule'[k].end = row.end
                        /\ schedule' = SubSeq(schedule, 1, k - 1)
                                         \o <<schedule'[k]>>
                                         \o SubSeq(schedule, k, Len(schedule))
                   /\ bands' = schedule'
                   /\ response'.code = 302]_vars

\* C2 witness: an add_band was refused for a conflict with an entry that is
\* in the schedule.
C2_Witness ==
  /\ response.op = "add_band"
  /\ response.kind = "conflict"
  /\ \E i \in 1..Len(schedule) : schedule[i].band = response.band

\* C3: a delete that removes the position of the playing entry resets the
\* playback state to idle.
C3_DeleteOfActiveResets ==
  [][\A selected \in Selections :
       (Delete(selected) /\ Playing /\ current_band_index \in selected)
         => /\ timer_running' = FALSE
            /\ end_time' = None
            /\ current_band_index' = -1]_vars

\* A step of the timer thread.
TimerStep == \E adv \in {0, 1} : Tick(adv)

\* The records of the history carry non-decreasing times of finishing.
FinishOrder ==
  \A i, j \in 1..Len(history) :
    i < j => history[i].actual_end <= history[j].actual_end

\* C4: a step of the timer thread at which the countdown of the playing entry
\* has reached zero appends exactly one record, of that entry, behind the
\* records there are, removes the entry, and leaves no countdown at zero, so
\* that a repeated step appends nothing; no other step changes the history;
\* the records stand in the order of finishing.
C4_HistoryExactlyOncePerFinish ==
  /\ []FinishOrder
  /\ [][IF Playing /\ now' >= end_time /\ TimerStep
          THEN /\ Len(history') = Len(history) + 1
               /\ SubSeq(history', 1, Len(history)) = history
               /\ history'[Len(history')].band_name = ActiveEntry.band
               /\ history'[Len(history')].actual_end = now'
               /\ history'[Len(history')].hidden = 0
               /\ schedule' = Pop(schedule, current_band_index)
               /\ (~timer_running' \/ end_time' > now')
          ELSE history' = history]_vars

\* C4 witness: two entries have finished one after the other and the history
\* holds their two records in that order.
C4_Witness ==
  /\ Len(history) = 2
  /\ history[1].band_name = "A"
  /\ history[2].band_name = "B"
  /\ history[1].actual_end < history[2].actual_end

\* The schedule holds no two entries that overlap.
ConflictFree(sched) ==
  \A i, j \in 1..Len(sched) : i # j => ~SlotsOverlap(sched[i], sched[j])

\* An adjust request.
AdjustStep == \E adjust_minutes \in Deltas : AdjustTime(adjust_minutes)

\* C5: after an accepted adjust of a schedule that held no overlap, the
\* adjusted entry overlaps no other entry of the schedule, an entry of the
\* next day included.
C5_AdjustKeepsNeighboursClear ==
  [][(AdjustStep /\ response'.code = 200 /\ ConflictFree(schedule))
       => \A i \in 1..Len(schedule') :
            i # current_band_index + 1
              => ~SlotsOverlap(schedule'[current_band_index + 1],
                               schedule'[i])]_vars

\* The first entry behind the playing one that is scheduled on its date.
NextSameDay ==
  LET later == { i \in (current_band_index + 2)..Len(schedule) :
                   schedule[i].date = ActiveEntry.date }
  IN IF later = {} THEN <<>> ELSE <<schedule[Least(later)]>>

\* start + duration of the playing entry.
ActiveEnd == SlotStart(ActiveEntry) + ActiveEntry.duration

\* The example: 20:00-21:00 is playing, the next entry starts at 21:20.
ExampleSchedule ==
  << [date |-> 0, band |-> "X", start |-> 20 * 60, end |-> 21 * 60,
      end_date |-> 0, duration |-> 60],
     [date |-> 0, band |-> "Y", start |-> 21 * 60 + 20, end |-> 22 * 60,
      end_date |-> 0, duration |-> 40] >>

AdjustExample ==
  /\ AdjustVerdict(ExampleSchedule, 0, 30)
       = [kind |-> "max_extension", minutes |-> 20]
  /\ AdjustVerdict(ExampleSchedule, 0, 15).kind = "ok"
  /\ AdjustVerdict(ExampleSchedule, 0, 20).kind = "ok"

\* C6: while an entry is playing, an adjust by delta > 0 is refused exactly
\* when start + duration + delta lies after the start of the next entry of
\* the same day; the refusal states the gap between start + duration and that
\* start as the most that is possible, and that no extension is possible when
\* there is no gap.  In the example +30 is refused with 20, +15 and +20 pass.
C6_PositiveAdjustBound ==
  /\ []AdjustExample
  /\ [][\A delta \in Deltas :
          (AdjustTime(delta) /\ delta > 0 /\ Playing) =>
            IF NextSameDay # <<>>
                 /\ ActiveEnd + delta > SlotStart(NextSameDay[1])
              THEN /\ response'.code = 400
                   /\ IF SlotStart(NextSameDay[1]) - ActiveEnd > 0
                        THEN /\ response'.kind = "max_extension"
                             /\ response'.minutes
                                  = SlotStart(NextSameDay[1]) - ActiveEnd
                        ELSE response'.kind = "no_extension"
              ELSE response'.code = 200]_vars

\* C6 witness: an extension of the playing entry was refused with the one
\* minute that is left before the next entry of the day.
C6_Witness ==
  /\ Playing
  /\ response.op = "adjust_time"
  /\ response.kind = "max_extension"
  /\ response.minutes = 1
  /\ NextSameDay # <<>>
  /\ SlotStart(NextSameDay[1]) - ActiveEnd = 1

\* Every entry of the schedule lasts at least one minute.
DurationsPositive == \A i \in 1..Len(schedule) : schedule[i].duration >= 1

\* C7: while an entry is playing, an adjust by delta < 0 is refused exactly
\* when duration + delta < 1, and no entry ever lasts less than one minute.
C7_NegativeAdjustFloor ==
  /\ []DurationsPositive
  /\ [][\A delta \in Deltas :
          (AdjustTime(delta) /\ delta < 0 /\ Playing) =>
            IF ActiveEntry.duration + delta < 1
              THEN response'.code = 400 /\ response'.kind = "min_duration"
              ELSE /\ response'.code = 200
                   /\ schedule'[current_band_index + 1].duration
                        = ActiveEntry.duration + delta]_vars

\* C7 witness: a shortening of a playing entry of one minute was refused.
C7_Witness ==
  /\ Playing
  /\ ActiveEntry.duration = 1
  /\ response.op = "adjust_time"
  /\ response.kind = "min_duration"

\* C8: an adjust while no entry is playing is refused, and a refused adjust
\* leaves the schedule, end_time, the persisted bands and the captured
\* original values as they were and emits nothing.
C8_RejectedAdjustIsNoOp ==
  [][\A delta \in Deltas :
       AdjustTime(delta) =>
         /\ (~Playing => response'.code # 200)
         /\ (response'.code # 200 =>
               /\ schedule' = schedule
               /\ end_time' = end_time
               /\ bands' = bands
               /\ originals' = originals
               /\ emits' = <<>>)]_vars

\* C8 witness: an adjust was refused because no timer runs, with an entry
\* still at current_band_index.
C8_Witness ==
  /\ response.op = "adjust_time"
  /\ response.kind = "no_timer"
  /\ ~timer_running
  /\ current_band_index >= 0
  /\ current_band_index < Len(schedule)

\* C9: an accepted adjust by delta moves end_time by delta, makes the duration
\* of the playing entry duration + delta and its end and end_date those of
\* start + the new duration, leaves its date, start and band and every other
\* entry alone, persists the schedule and emits one playing snapshot of the
\* new countdown.
C9_AcceptedAdjustEffect ==
  [][\A delta \in Deltas :
       (response'.code = 200 /\ AdjustTime(delta)) =>
         LET k == current_band_index + 1
             finish == SlotStart(schedule[k]) + schedule[k].duration + delta
         IN /\ end_time' = end_time + delta
            /\ schedule'[k].duration = schedule[k].duration + delta
            /\ schedule'[k].end = finish % MinutesPerDay
            /\ schedule'[k].end_date = finish \div MinutesPerDay
            /\ schedule'[k].date = schedule[k].date
            /\ schedule'[k].start = schedule[k].start
            /\ schedule'[k].band = schedule[k].band
            /\ Len(schedule') = Len(schedule)
            /\ \A i \in 1..Len(schedule) : i # k => schedule'[i] = schedule[i]
            /\ bands' = schedule'
            /\ Len(emits') = 1
            /\ emits'[1].event = "time_update"
            /\ emits'[1].status = "playing"
            /\ emits'[1].band = schedule[k].band
            /\ emits'[1].remaining = (end_time' - now) * SecondsPerMinute
            /\ emits'[1].total_duration
                 = schedule'[k].duration * SecondsPerMinute
            /\ UNCHANGED <<current_band_index, timer_running>>]_vars

\* C9 witness: an adjust by two minutes was accepted and moved the end of
\* the playing entry across midnight.
C9_Witness ==
  /\ response.op = "adjust_time"
  /\ response.code = 200
  /\ response.minutes = 2
  /\ Playing
  /\ ActiveEntry.end_date = ActiveEntry.date + 1
  /\ Len(emits) = 1

\* C10: while one and the same entry is playing, the values captured of it
\* when it was activated are not changed by any step.
C10_OriginalsCapturedOnce ==
  [][(/\ Playing
      /\ original_scheduled_start = ActiveEntry.start
      /\ timer_running'
      /\ current_band_index' = current_band_index
      /\ current_band_index < Len(schedule')
      /\ schedule'[current_band_index + 1].band = ActiveEntry.band
      /\ schedule'[current_band_index + 1].date = ActiveEntry.date
      /\ schedule'[current_band_index + 1].start = ActiveEntry.start
      /\ history' = history)
       => originals' = originals]_vars

\* The step of the timer thread is the first one on a new calendar date.
Rollover == last_date # None /\ DateOf(now') # last_date

\* C11: a step of the timer thread on a new date while an entry is playing
\* with its countdown above zero leaves timer_running, end_time,
\* current_band_index, the schedule and the history alone and reports the
\* entry as playing; on a new date with no timer running the index is reset,
\* and is set again only by an activation in the same step.
C11_RolloverKeepsPlaying ==
  [][/\ ((Rollover /\ Playing /\ now' < end_time /\ TimerStep)
           => (/\ UNCHANGED <<timer_running, end_time, current_band_index,
                              schedule, history>>
               /\ Len(emits') = 1
               /\ emits'[1].status = "playing"
               /\ emits'[1].band = ActiveEntry.band))
      /\ ((Rollover /\ ~timer_running /\ TimerStep)
           => (current_band_index' = -1 \/ timer_running'))]_vars

\* C11 witness: the timer thread has made its first pass of day 1 and the
\* entry of day 0 that runs across midnight is still playing.
C11_Witness ==
  /\ Playing
  /\ ActiveEntry.date = 0
  /\ last_date = 1
  /\ DateOf(now) = 1
  /\ now < end_time
  /\ Len(emits) = 1
  /\ emits[1].status = "playing"

\* C12: a step in which a persistence call fails leaves the schedule and the
\* playback state as they were before it, and a request that fails so is
\* answered with an error.
C12_FailedWriteRollsBack ==
  [][FaultStep =>
       /\ schedule' = schedule
       /\ UNCHANGED playback
       /\ (response'.op # "none" => response'.code >= 400)]_vars

\* C13: with persistence calls that do not fail, after every step the bands
\* of the database read in (date, start) order are the entries of the
\* schedule, field for field.
C13_PersistedEqualsMemory ==
  [][get_all_bands(bands') = schedule']_vars

\* The band a finish at current_band_index records, and the schedule it leaves.
FinishedBand(sched) == sched[current_band_index + 1].band
LastRecorded == history'[Len(history')].band_name

\* C14: a finish of the timer thread that runs concurrently with an add_band
\* request ends with the schedule and the history record of one of the two
\* serial orders: the finish before the request, or the request before the
\* finish.
C14_InterleavingIsSerial ==
  [][\A row \in Catalogue :
       (\E adv \in {0, 1} : FinishAroundAddBand(adv, row)) =>
         \/ /\ LastRecorded = FinishedBand(schedule)
            /\ schedule'
                 = ScheduleAfterAdd(Pop(schedule, current_band_index), row)
         \/ /\ LastRecorded = FinishedBand(ScheduleAfterAdd(schedule, row))
            /\ schedule'
                 = Pop(ScheduleAfterAdd(schedule, row), current_band_index)]_vars

\* The overlapping pairs of a list of entries, as sets of two names.
OverlappingPairs(entries) ==
  { {entries[i].band, entries[j].band} :
      <<i, j>> \in { p \in (1..Len(entries)) \X (1..Len(entries)) :
                       /\ p[1] < p[2]
                       /\ SlotsOverlap(entries[p[1]], entries[p[2]]) } }

\* The pairs that a list of conflict records reports.
ReportedPairs(conflicts) ==
  { {conflicts[i].band1, conflicts[i].band2} : i \in 1..Len(conflicts) }

\* The rows of a batch as entries with the end date of C18.
BatchEntries(batch) ==
  [k \in 1..Len(batch) |->
     [band |-> batch[k].band, date |-> batch[k].date,
      start |-> batch[k].start, end |-> batch[k].end,
      end_date |-> SlotOfRow(batch[k]).end_date]]

\* The batches that hold an overlapping pair of rows.
OverlappingBatches == { batch \in Batches : BatchOverlaps(batch) }

\* C15: an upload whose rows hold an overlapping pair changes neither the
\* schedule nor the persisted bands and answers with one conflict record for
\* every overlapping pair of the rows; a reload of persisted bands that hold
\* an overlapping pair leaves the schedule as it was and puts one record for
\* every overlapping pair into schedule_conflicts.
C15_ConflictingBatchNotAdopted ==
  [][/\ (\A batch \in OverlappingBatches :
           ((response'.op = "upload_csv" /\ UploadCsv(batch)) =>
              (/\ schedule' = schedule
               /\ bands' = bands
               /\ response'.code = 400
               /\ Len(response'.conflicts)
                    = Cardinality(OverlappingPairs(BatchEntries(batch)))
               /\ ReportedPairs(response'.conflicts)
                    = OverlappingPairs(BatchEntries(batch)))))
      /\ ((/\ response'.op = "reload"
           /\ OverlappingPairs(bands) # {}
           /\ Reload) =>
            (/\ schedule' = schedule
             /\ bands' = bands
             /\ Len(schedule_conflicts')
                  = Cardinality(OverlappingPairs(bands))
             /\ ReportedPairs(schedule_conflicts')
                  = OverlappingPairs(bands)))]_vars

\* C15 witness: an upload of three rows, one of which overlaps the two
\* others, was refused with two conflict records and the schedule that was
\* there is still there.
C15_Witness ==
  /\ response.op = "upload_csv"
  /\ response.code = 400
  /\ Len(response.conflicts) = 2
  /\ schedule # <<>>
  /\ bands = schedule

\* The two entries of the rows: the one in the schedule and the new one.
Existing == schedule[1]
New == schedule[2]

\* The new entry conflicts with the existing one: by check_time_conflict, and
\* by the loop of load_schedule and upload_csv.
ConflictByCheck(new, existing) ==
  check_time_conflict(<<existing>>, new.date, new.start, new.end,
                      new.duration, new.end_date).has_conflict
ConflictByLoad(new, existing) ==
  ConflictsFound(<<Numbered(existing, 2), Numbered(new, 3)>>, 2) # <<>>

\* C16: the new entry conflicts with the existing one exactly when
\* start(new) < end(existing) and end(new) > start(existing), each end taken
\* on the entry's end_date; entries that touch do not conflict; 23:30-00:30
\* of day 0 conflicts with 00:00-01:00 of day 1.
C16_ConflictPredicate ==
  response.op = "check_time_conflict" =>
    /\ (response.kind = "conflict")
         <=> (/\ SlotStart(New) < SlotEnd(Existing)
              /\ SlotEnd(New) > SlotStart(Existing))
    /\ ConflictByCheck(New, Existing) <=> (response.kind = "conflict")
    /\ ConflictByLoad(New, Existing) <=> (response.kind = "conflict")
    /\ (SlotEnd(Existing) = SlotStart(New) \/ SlotEnd(New) = SlotStart(Existing))
         => response.kind = "free"
    /\ (/\ bands[1].date = 0 /\ bands[1].start = 23 * 60 + 30
        /\ bands[1].end = 30
        /\ bands[2].date = 1 /\ bands[2].start = 0 /\ bands[2].end = 60)
         => response.kind = "conflict"

\* C16 witness: 00:00-01:00 of day 1 was tested against 23:30-00:30 of day 0
\* and found in conflict.
C16_Witness ==
  /\ response.op = "check_time_conflict"
  /\ response.kind = "conflict"
  /\ bands[1].date = 0 /\ bands[1].start = 23 * 60 + 30 /\ bands[1].end = 30
  /\ bands[2].date = 1 /\ bands[2].start = 0 /\ bands[2].end = 60

\* C17: the conflict test gives the same result with the two entries in
\* either role, the new one and the existing one.
C17_ConflictSymmetry ==
  schedule # <<>> =>
    /\ ConflictByCheck(New, Existing) <=> ConflictByCheck(Existing, New)
    /\ ConflictByLoad(New, Existing) <=> ConflictByLoad(Existing, New)
    /\ (response.op = "check_time_conflict"
         => ((response.kind = "conflict") <=> ConflictByCheck(Existing, New)))

\* C17 witness: a conflict was found for a new entry that starts before the
\* existing one and ends inside it.
C17_Witness ==
  /\ response.op = "check_time_conflict"
  /\ response.kind = "conflict"
  /\ SlotStart(New) < SlotStart(Existing)
  /\ SlotEnd(New) < SlotEnd(Existing)

\* C18: for a row of date D the derived entry has end_date = D and
\* duration = end - start when end > start, and end_date = D + 1 and
\* duration = 1440 - (start - end) when end <= start; the duration lies in
\* 1..1440; D, 23:30, 00:30 gives D + 1 and 60 minutes.
C18_DurationAndEndDate ==
  \A k \in 1..Len(schedule) :
    /\ (bands[k].end > bands[k].start
         => /\ schedule[k].end_date = bands[k].date
            /\ schedule[k].duration = bands[k].end - bands[k].start)
    /\ (bands[k].end <= bands[k].start
         => /\ schedule[k].end_date = bands[k].date + 1
            /\ schedule[k].duration
                 = 1440 - (bands[k].start - bands[k].end))
    /\ schedule[k].duration >= 1
    /\ schedule[k].duration <= 1440
    /\ ((bands[k].start = 23 * 60 + 30 /\ bands[k].end = 30)
         => /\ schedule[k].end_date = bands[k].date + 1
            /\ schedule[k].duration = 60)

\* C18 witness: the entries were derived from a row 23:30-00:30 and from a
\* row whose end equals its start.
C18_Witness ==
  /\ schedule # <<>>
  /\ bands[1].start = 23 * 60 + 30 /\ bands[1].end = 30
  /\ schedule[1].duration = 60
  /\ bands[2].start = bands[2].end
  /\ schedule[2].duration = 1440

\* C19: every entry of the schedule has a duration of at least one minute,
\* ends strictly after it starts, and has as duration the minutes from
\* date+start to end_date+end, in every reachable state.
C19_EntryInvariant ==
  \A k \in 1..Len(schedule) :
    /\ schedule[k].duration >= 1
    /\ EntryEnd(schedule[k]) > EntryStart(schedule[k])
    /\ schedule[k].duration = EntryEnd(schedule[k]) - EntryStart(schedule[k])

\* C19 witness: an adjust by minus one minute was accepted, and the schedule
\* holds an entry that ends on the day after its start.
C19_Witness ==
  /\ response.op = "adjust_time"
  /\ response.code = 200
  /\ response.minutes = -1
  /\ \E k \in 1..Len(schedule) : schedule[k].end_date = schedule[k].date + 1

\* C20: after every operation the schedule is in non-decreasing order of
\* (date, start).
C20_ScheduleSorted ==
  \A k \in 1..(Len(schedule) - 1) :
    \/ schedule[k].date < schedule[k + 1].date
    \/ /\ schedule[k].date = schedule[k + 1].date
       /\ schedule[k].start <= schedule[k + 1].start

\* C20 witness: add_band was accepted and the schedule holds an entry of
\* day 1 behind two entries of day 0 with different starts.
C20_Witness ==
  /\ response.op = "add_band"
  /\ response.code # 400
  /\ Len(schedule) = 3
  /\ schedule[1].start < schedule[2].start
  /\ schedule[2].date < schedule[3].date

\* The next pass of the timer thread raises: a timer is running and
\* current_band_index is no position of the schedule (IndexError at
\* app.py:417 or 455).
TickRaises ==
  timer_running /\ end_time # None /\ ~InRange(schedule, current_band_index)

\* A pass of the timer thread in which a persistence call fails.
FailingTimerStep == \E adv \in {0, 1} : TickFault(adv)

\* The guard of a further pass within the same minute, Tick(0).
FurtherPass == loop_alive /\ now <= MaxNow

SameButHidden(r1, r2) == [r1 EXCEPT !.hidden = 0] = [r2 EXCEPT !.hidden = 0]

\* The ids of the rows the visible-history query returns.
VisibleIds(h) ==
  { get_visible_history(h, Len(h))[k].id :
      k \in 1..Len(get_visible_history(h, Len(h))) }

\* C23: no step removes a history record or changes a field of it other
\* than hidden; hide-one sets hidden = 1 of the record with the given id and
\* of no other, hide-all of every record; the visible-history query returns
\* the records with hidden = 0 and none with hidden = 1.
C23_HidingIsSoftDelete ==
  [][/\ Len(history') >= Len(history)
     /\ \A k \in 1..Len(history) : SameButHidden(history'[k], history[k])
     /\ (\A history_id \in HistoryIds :
           (response'.op = "hide_history_entry"
              /\ HideHistoryEntry(history_id)) =>
             (/\ Len(history') = Len(history)
              /\ \A k \in 1..Len(history) :
                   history'[k].hidden
                     = IF k = history_id THEN 1 ELSE history[k].hidden))
     /\ ((response'.op = "hide_all_history" /\ HideAllHistory) =>
           (/\ Len(history') = Len(history)
            /\ \A k \in 1..Len(history) : history'[k].hidden = 1))
     /\ VisibleIds(history')
          = { k \in 1..Len(history') : history'[k].hidden = 0 }]_vars

\* C23 witness: of two records the first has been hidden by hide-one; it is
\* still in the table and the query returns the second only.
C23_Witness ==
  /\ response.op = "hide_history_entry"
  /\ Len(history) = 2
  /\ history[1].hidden = 1
  /\ history[2].hidden = 0
  /\ VisibleIds(history) = {2}

\* C24: the event_date of the schedule API is the date before the calendar
\* date while the time of the day is before 02:00, and the calendar date
\* from 02:00 on.
C24_EventDayStartsAtTwo ==
  response.op = "api_schedule" =>
    /\ (now % MinutesPerDay < 2 * 60
         => response.event_date = now \div MinutesPerDay - 1)
    /\ (now % MinutesPerDay >= 2 * 60
         => response.event_date = now \div MinutesPerDay)

\* C24 witness: asked at 01:59 of day 2, the API has answered with day 1.
C24_Witness ==
  /\ response.op = "api_schedule"
  /\ now = 2 * MinutesPerDay + 119
  /\ response.event_date = 1

\* The timer thread has made a pass at the time of the clock.
Ticked == last_date # None

\* The last pass has reported the status, and nothing else.
Reported(kind) == Len(emits) = 1 /\ emits[1].status = kind

\* C22: with A 18:00-19:00 and B 19:30-21:00 and no request, after the pass
\* at 18:00 A is playing with 3600 seconds remaining; A plays until 19:00;
\* the pass at 19:00 writes the one history record of A and removes A; from
\* 19:00 until 19:30 the status is waiting with B as next band and its
\* countdown; B is playing from 19:30 on and not before.
C22_EveningScenario ==
  Ticked =>
    /\ (now = 18 * 60
         => /\ Playing /\ ActiveEntry.band = "A"
            /\ Reported("playing")
            /\ emits[1].band = "A"
            /\ emits[1].remaining = 3600)
    /\ ((18 * 60 <= now /\ now < 19 * 60)
         => /\ Playing /\ ActiveEntry.band = "A"
            /\ end_time = 19 * 60
            /\ history = <<>>
            /\ Len(schedule) = 2)
    /\ (now >= 19 * 60
         => /\ Len(history) >= 1
            /\ history[1].band_name = "A"
            /\ \A k \in 2..Len(history) : history[k].band_name # "A"
            /\ \A k \in 1..Len(schedule) : schedule[k].band # "A"
            /\ \A k \in 1..Len(bands) : bands[k].band # "A")
    /\ ((19 * 60 <= now /\ now < 19 * 60 + 30)
         => /\ ~timer_running
            /\ Len(history) = 1
            /\ emits[Len(emits)].status = "waiting"
            /\ emits[Len(emits)].next_band[1].band = "B"
            /\ emits[Len(emits)].next_band[1].countdown
                 = (19 * 60 + 30 - now) * 60)
    /\ (now < 19 * 60 + 30
         => ~(Playing /\ ActiveEntry.band = "B"))
    /\ ((19 * 60 + 30 <= now /\ now < 21 * 60)
         => /\ Playing /\ ActiveEntry.band = "B"
            /\ end_time = 21 * 60
            /\ Len(history) = 1)

\* C22 witness: at 19:30 B is playing, A is in the history and no longer in
\* the schedule.
C22_Witness ==
  /\ Ticked
  /\ now = 19 * 60 + 30
  /\ Playing
  /\ ActiveEntry.band = "B"
  /\ Len(history) = 1
  /\ history[1].band_name = "A"
  /\ Len(schedule) = 1

\* The entry at position k of sched is dated today at wall clock n, has
\* started and its window [start, start + duration) has not elapsed.
Eligible(sched, k, n) ==
  /\ sched[k].date = n \div MinutesPerDay
  /\ SlotStart(sched[k]) <= n
  /\ n < SlotStart(sched[k]) + sched[k].duration

\* A step takes the playback from not playing to playing.
Activation == ~timer_running /\ timer_running'

\* C25: the entry that a step from not playing to playing makes active is
\* dated today, has started, has a window that has not elapsed, and no
\* entry of the schedule of which this is true starts earlier.
C25_ActivationEligibility ==
  [][Activation =>
       /\ current_band_index' >= 0
       /\ current_band_index' < Len(schedule')
       /\ Eligible(schedule', current_band_index' + 1, now')
       /\ \A k \in 1..Len(schedule') :
            Eligible(schedule', k, now')
              => SlotStart(schedule'[current_band_index' + 1])
                   <= SlotStart(schedule'[k])]_vars

\* The later of two times.
Later(t1, t2) == IF t1 >= t2 THEN t1 ELSE t2

\* C26: a step from not playing to playing sets end_time to the later of now
\* and the scheduled start of the entry, plus its duration, and is not taken
\* while now is before the scheduled start of the entry.
C26_ActivationEndTime ==
  [][(Activation /\ InRange(schedule', current_band_index')) =>
       /\ end_time'
            = Later(now', SlotStart(schedule'[current_band_index' + 1]))
                + schedule'[current_band_index' + 1].duration
       /\ now' >= SlotStart(schedule'[current_band_index' + 1])]_vars

\* The effects of the finish branch, as a step shows them.
Recorded ==
  /\ Len(history') = Len(history) + 1
  /\ history'[Len(history')].band_name = ActiveEntry.band
Removed == schedule' = Pop(schedule, current_band_index)
Persisted == bands' = schedule'
Notified == \E k \in 1..Len(emits') : emits'[k].event = "schedule_updated"

\* The playback state after the reset and the idle part of the same pass:
\* nothing is playing, or a band has been activated in this pass.
ResetAndReevaluated ==
  IF timer_running'
    THEN /\ InRange(schedule', current_band_index')
         /\ end_time'
              = now' + schedule'[current_band_index' + 1].duration
         /\ emits'[Len(emits')].status = "playing"
    ELSE /\ end_time' = None
         /\ current_band_index' = -1
         /\ emits'[Len(emits')].status \in {"waiting", "finished"}

\* C27: a pass that finds now >= end_time while a band is playing records
\* the band in the history, removes it from the schedule, persists the
\* schedule, emits schedule_updated and resets the playback state before
\* the same pass looks for the next band.  The order shows when a
\* persistence call fails: the band is removed only if it has been recorded,
\* the notification is emitted only if the schedule has been persisted, and
\* the reset is made in every case.
C27_FinishTransition ==
  [][/\ ((Playing /\ now' >= end_time /\ TimerStep)
           => (Recorded /\ Removed /\ Persisted /\ Notified
               /\ emits'[1].event = "schedule_updated"
               /\ ResetAndReevaluated))
     /\ ((Playing /\ FailingTimerStep)
           => (/\ Removed => Recorded
               /\ ~Removed => (schedule' = schedule /\ bands' = bands)
               /\ ~Recorded => history' = history
               /\ ~Notified
               /\ ResetAndReevaluated))]_vars

\* C27 witness: a band has finished while the save of the schedule failed:
\* it is in the history and no longer in the schedule, the database still
\* holds it, and the playback state is reset.
C27_Witness ==
  /\ response = NoReply
  /\ Len(history) = 1
  /\ history[1].band_name = "A"
  /\ \A k \in 1..Len(schedule) : schedule[k].band # "A"
  /\ \E k \in 1..Len(bands) : bands[k].band = "A"
  /\ ~timer_running
  /\ end_time = None
  /\ current_band_index = -1

\* C28: the history record of a band that finishes has as actual end the
\* end_time of the playback, also when end_time lies before the time of the
\* pass that finds the band finished.
C28_ActualEndIsEndTime ==
  [][(Playing /\ now' >= end_time /\ TimerStep)
       => history'[Len(history')].actual_end = end_time]_vars

\* C29: a pass of the timer thread while a band is playing and now is
\* before end_time changes none of end_time, current_band_index,
\* timer_running, the captured original values, the schedule, the persisted
\* bands and the history, and reports the remaining time end_time - now,
\* which is not above the remaining time of the report before it.
C29_TickIdempotentWhilePlaying ==
  [][(Playing /\ now' < end_time /\ TimerStep) =>
       /\ UNCHANGED <<end_time, current_band_index, timer_running, originals,
                      schedule, bands, history>>
       /\ Reported("playing")'
       /\ emits'[1].remaining = (end_time - now') * SecondsPerMinute
       /\ (Reported("playing") => emits'[1].remaining <= emits[1].remaining)
       /\ (now' = now => emits'[1].remaining
                           = (end_time - now) * SecondsPerMinute)]_vars

\* C29 witness: the last step was a pass of the timer thread that reported
\* the remaining time of a band activated at an earlier minute.
C29_Witness ==
  /\ Playing
  /\ Ticked
  /\ response = NoReply
  /\ Reported("playing")
  /\ now < end_time
  /\ now > end_time - ActiveEntry.duration
  /\ emits[1].remaining = (end_time - now) * SecondsPerMinute

\* C30: after every pass of the timer thread a running timer belongs to an
\* entry of the schedule, the one whose start was captured when it was
\* activated; a pass that raises, because the entry has disappeared, leaves
\* no timer running.
C30_ResetWhenActiveDisappears ==
  [][TimerStep =>
       /\ (timer_running' =>
             /\ InRange(schedule', current_band_index')
             /\ schedule'[current_band_index' + 1].start
                  = original_scheduled_start')
       /\ (TickRaises => ~timer_running')]_vars

\* The time_update events among the events of the last step.
StatusSnapshots(events) ==
  { k \in 1..Len(events) : events[k].event = "time_update" }

\* The positions of the entries dated today that start after wall clock n.
StartingLater(sched, n) ==
  { k \in 1..Len(sched) :
      sched[k].date = n \div MinutesPerDay /\ SlotStart(sched[k]) > n }

\* C31: a pass of the timer thread after which no timer runs emits exactly
\* one status snapshot: when some entry dated today starts after now, a
\* waiting snapshot that names the entry of today with the earliest start
\* after now, with the countdown start - now in seconds; when no entry of
\* today starts after now, a finished snapshot.
C31_WaitingOrFinishedSnapshot ==
  [][(~timer_running' /\ response'.op = "none" /\ TimerStep) =>
       \E k \in 1..Len(emits') :
         /\ StatusSnapshots(emits') = {k}
         /\ IF StartingLater(schedule', now') # {}
              THEN /\ emits'[k].status = "waiting"
                   /\ \E i \in StartingLater(schedule', now') :
                        /\ \A j \in StartingLater(schedule', now') :
                             SlotStart(schedule'[i]) <= SlotStart(schedule'[j])
                        /\ emits'[k].next_band[1].band = schedule'[i].band
                        /\ emits'[k].next_band[1].start = schedule'[i].start
                        /\ emits'[k].next_band[1].countdown
                             = (SlotStart(schedule'[i]) - now')
                                 * SecondsPerMinute
              ELSE emits'[k].status = "finished"]_vars

\* C31 witness: the last pass found A finished, removed it and reported that
\* the next entry of today, B, is waited for.
C31_Witness ==
  /\ response = NoReply
  /\ ~timer_running
  /\ Len(emits) = 2
  /\ emits[1].event = "schedule_updated"
  /\ emits[2].status = "waiting"
  /\ emits[2].next_band[1].band = "B"
  /\ emits[2].next_band[1].countdown = SecondsPerMinute

\* The playback status is Playing: the test of the running part of a pass
\* (app.py:414).
StatusPlaying == timer_running /\ end_time # None

\* The positions behind the active one whose entries are dated today at wall
\* clock n.
LaterToday(sched, idx, n) ==
  { k \in (idx + 2)..Len(sched) : sched[k].date = n \div MinutesPerDay }

\* The last step has emitted exactly one event, the playing snapshot of the
\* entry at current_band_index: its label, end_time - now in seconds, its
\* duration in seconds, and as next band the first later entry dated today
\* with the countdown to its start, or no next band when there is none.
PlayingSnapshotOfActive ==
  /\ Len(emits') = 1
  /\ emits'[1].event = "time_update"
  /\ emits'[1].status = "playing"
  /\ InRange(schedule, current_band_index)
  /\ emits'[1].band = PyAt(schedule, current_band_index).band
  /\ emits'[1].remaining = (end_time - now') * SecondsPerMinute
  /\ emits'[1].total_duration
       = PyAt(schedule, current_band_index).duration * SecondsPerMinute
  /\ (emits'[1].next_band = NoNext
       <=> LaterToday(schedule, current_band_index, now') = {})
  /\ (emits'[1].next_band # NoNext =>
       \E k \in LaterToday(schedule, current_band_index, now') :
         /\ \A j \in LaterToday(schedule, current_band_index, now') : k <= j
         /\ emits'[1].next_band[1].band = schedule[k].band
         /\ emits'[1].next_band[1].countdown
              = (SlotStart(schedule[k]) - now') * SecondsPerMinute)

\* C32: every pass of the timer thread made while the status is Playing and
\* now is before end_time emits exactly one playing snapshot, that of the
\* active entry, with the first later entry of today as next band.
C32_PlayingSnapshotEveryTick ==
  [][(StatusPlaying /\ now' < end_time /\ response'.op = "none" /\ TimerStep)
       => PlayingSnapshotOfActive]_vars

\* Two entries have the same date, start and label.
SameIdentity(a, b) == a.date = b.date /\ a.start = b.start /\ a.band = b.band

\* A request that changes the schedule and is no delete of the active
\* position.
ScheduleRequest ==
  \/ response'.op \in {"add_band", "save", "upload_csv", "reload"}
  \/ \E selected \in Selections :
       /\ current_band_index \notin selected
       /\ response'.op = "delete"
       /\ Delete(selected)

\* C33: a request that adds, saves, deletes other positions, uploads or
\* reloads while an entry is playing, and after which the schedule still
\* holds that entry, leaves current_band_index at that entry.
C33_ActiveEntryIdentity ==
  [][(/\ Playing
      /\ ScheduleRequest
      /\ \E k \in 1..Len(schedule') : SameIdentity(schedule'[k], ActiveEntry))
       => /\ timer_running'
          /\ InRange(schedule', current_band_index')
          /\ SameIdentity(PyAt(schedule', current_band_index'),
                          ActiveEntry)]_vars

\* C34: the schedule in memory never holds two entries whose intervals
\* [date+start, end_date+end) overlap.
C34_ConflictFreeSchedule == ConflictFree(schedule)

\* end_time does not lie after the start of the first entry behind the
\* active one that is dated today.
EndsBeforeNext(sched, idx, et, n) ==
  \A k \in LaterToday(sched, idx, n) :
    (\A j \in LaterToday(sched, idx, n) : k <= j)
      => et <= SlotStart(sched[k])

\* C35: a pass of the timer thread that activates an entry of a schedule
\* without overlap, at its start or late, sets an end_time that does not lie
\* after the start of the first later entry dated today.
C35_EndTimeBeforeNextStart ==
  [][(/\ response'.op = "none"
      /\ timer_running'
      /\ end_time' # end_time
      /\ ConflictFree(schedule')
      /\ InRange(schedule', current_band_index'))
       => EndsBeforeNext(schedule', current_band_index', end_time', now')]_vars

\* The playback is paused: pause has stopped the timer and left end_time
\* and current_band_index as they were (app.py:803-804).
Paused ==
  /\ ~timer_running
  /\ end_time # None
  /\ InRange(schedule, current_band_index)
  /\ current_band_index >= 0

\* The entry at current_band_index is the same before and after the step.
SameActiveEntry ==
  /\ current_band_index' = current_band_index
  /\ InRange(schedule', current_band_index')
  /\ schedule'[current_band_index' + 1] = ActiveEntry

\* C36: pause, start and save and the passes of the timer thread before
\* end_time leave the end_time of the playing entry as it is, and a pass
\* that goes on with a paused entry goes on with its end_time.
C36_EndTimeMovesOnlyByAdjust ==
  [][/\ (/\ Playing
          /\ response'.op \in {"pause", "start", "save"}
          /\ SameActiveEntry)
           => end_time' = end_time
     /\ (Playing /\ response'.op = "none" /\ now' < end_time)
           => end_time' = end_time
     /\ (/\ Paused
          /\ response'.op = "none"
          /\ timer_running'
          /\ SameActiveEntry)
           => end_time' = end_time]_vars

\* The remaining time of a playing snapshot lies in (0, total_duration].
RemainingInRange(update) ==
  0 < update.remaining /\ update.remaining <= update.total_duration

\* C37: every playing snapshot emitted by the last step, for an entry that
\* stands at current_band_index with the start captured at its activation,
\* has 0 < remaining <= total_duration.
C37_RemainingWithinTotal ==
  \A k \in 1..Len(emits) :
    (/\ emits[k].status = "playing"
     /\ Playing
     /\ ActiveEntry.band = emits[k].band
     /\ ActiveEntry.start = original_scheduled_start)
      => RemainingInRange(emits[k])

\* The schedule holds the entry made from the form row.
Scheduled(row) == \E k \in 1..Len(schedule) : schedule[k] = MakeEntry(row)

\* The entry made from the form row is playing.
NowPlaying(row) == Playing /\ ActiveEntry = MakeEntry(row)

\* The entry made from the form row is in the history and no longer in the
\* schedule.
Retired(row) ==
  /\ \E k \in 1..Len(history) :
       /\ history[k].band_name = row.band
       /\ history[k].scheduled_start = row.start
  /\ ~Scheduled(row)

\* C38: with no request and no failing persistence call, every entry of the
\* schedule that is dated today and starts at or after the first pass of the
\* timer thread is playing at some time and is later in the history and out
\* of the schedule, whatever entry is in progress at the first pass.
C38_ScheduleProgress ==
  \A row \in Catalogue :
    (/\ last_date = None
     /\ Scheduled(row)
     /\ row.date = now \div MinutesPerDay
     /\ SlotStart(MakeEntry(row)) > now)
      => <>(NowPlaying(row) /\ <>Retired(row))

\* C39: when db.add_to_history fails in a pass that finds the playing band
\* finished, the band stays in the schedule and in the persisted bands, no
\* schedule_updated is emitted, and the playback state is reset before the
\* same pass looks for the next band; no failing pass removes a band that
\* it has not recorded.
C39_RemovedOnlyAfterRecorded ==
  [][(Playing /\ FailingTimerStep) =>
       /\ (history' = history =>
             /\ schedule' = schedule
             /\ bands' = bands
             /\ ~Notified
             /\ ResetAndReevaluated)
       /\ (schedule' # schedule => Recorded)]_vars

\* C39 witness: A has played to its end and the append to the history has
\* failed: the history is empty, A is still in the schedule and in the
\* persisted bands although its window has elapsed, and nothing is playing.
C39_Witness ==
  /\ Ticked
  /\ history = <<>>
  /\ ~timer_running
  /\ end_time = None
  /\ current_band_index = -1
  /\ bands = schedule
  /\ \E k \in 1..Len(schedule) :
       /\ schedule[k].band = "A"
       /\ now > SlotStart(schedule[k]) + schedule[k].duration

\* C40: at the instant of a pass of the timer thread, the status and the
\* playing band that /status answers are those of the snapshot the pass has
\* emitted.
C40_PolledEqualsPushed ==
  \A k \in StatusSnapshots(emits) :
    response.op = "none" =>
      /\ status(schedule, now).status = emits[k].status
      /\ status(schedule, now).band = emits[k].band

====
